---- MODULE Spec2Model ----
(***************************************************************************)
(* Vault-key sealing subsystem of pkg/pillar/evetpm/tpm.go.                *)
(*                                                                         *)
(* The TPM (NV indices, PCR registers, seal/load/unseal primitives) and    *)
(* the persist directory (PCR snapshot, measurement-log copies) are the    *)
(* state.  Every exported operation is one action; it runs the function's  *)
(* code from entry to return.  A call of the go-tpm library or of the file *)
(* system that can return an error takes the set F of call sites that fail *)
(* in this run (a transient hardware or I/O failure).                      *)
(***************************************************************************)
EXTENDS Integers, Sequences, FiniteSets, TLC

\* ------------------------------------------------------------------ bounds
NumKeys == 2        \* distinct byte patterns the hardware RNG and callers produce
MaxSeals == 3       \* successful seals counted by the history
MaxTpms == 1        \* TPM directories mapped in sysfs
MaxTampered == 2    \* registers of the selection the platform may extend
MaxPCRVal == 1      \* extensions per register
MaxCalls == 3       \* calls the concurrent threads begin
MaxMapped == 2      \* TPM directories when the archivist is called on its own
NumStatuses == 2    \* device network statuses passed to updateLisp
MaxEids == 1        \* EID files in the LISP run directory
MaxSignals == 2     \* restart signals zedmanager sends to one agent

\* ------------------------------------------------------- program constants
TpmPasswdHdl == 23068672           \* 0x1600000
TpmDiskKeyHdl == 24117248          \* 0x1700000
TpmSealedDiskPrivHdl == 25165824   \* 0x1800000
TpmSealedDiskPubHdl == 26214400    \* 0x1900000
vaultKeyLength == 32
DiskKeySealingPCRs == <<0, 1, 2, 3, 4, 6, 7, 8, 9, 13, 14>>
MeasurementLogSealSuccess == "tpm_measurement_seal_success"
MeasurementLogUnsealFail == "tpm_measurement_unseal_fail"

SealedKeyTypeUnknown == "Unknown"
SealedKeyTypeReused == "Reused"
SealedKeyTypeNew == "New"
SealedKeyTypeUnprotected == "Unprotected"

PCRBank256StatusUnknown == "Unknown"
PCRBank256StatusSupported == "Supported"
PCRBank256StatusNotSupported == "NotSupported"

NVIndices == {TpmPasswdHdl, TpmDiskKeyHdl, TpmSealedDiskPrivHdl, TpmSealedDiskPubHdl}
SealingPCRSet == {DiskKeySealingPCRs[n] : n \in 1..Len(DiskKeySealingPCRs)}
TamperablePCRs == {DiskKeySealingPCRs[n] : n \in 1..MaxTampered}

\* fmt.Sprintf(TpmEvtLogSavePattern, base, i): "%s-tpm%d"
TpmEvtLogSavePattern(base, i) == <<base, i, 0>>
\* fmt.Sprintf(TpmEvtLogCollectPattern, path): "%s-backup"
TpmEvtLogCollectPattern(path) == <<path[1], path[2], path[3] + 1>>

Bases == {MeasurementLogSealSuccess, MeasurementLogUnsealFail}
\* a path is <<base, device index, number of "-backup" suffixes>>
Paths == {<<b, i, n>> : b \in Bases, i \in 0..(MaxTpms - 1), n \in 0..2}

\* ------------------------------------------------------------------- state
VARIABLES
    nv,                 \* NV index -> [defined, data]; data is <<>> or <<bytes>>
    pcr,                \* SHA256 bank: register -> value
    savedPCRs,          \* TpmSavedDiskSealingPcrs file: <<>> or <<index -> value>>
    fs,                 \* measurement-log copies: path -> <<>> or <<content>>
    tpms,               \* sysfs TPM directories; tpms[d] = it has a measurement log
    bank256,            \* the hardware has a readable SHA256 bank and the TPM is in use
    pcrBank256Status,   \* the memoized probe of this process
    hist,               \* history of the calls made so far
    inflight,           \* calls of concurrent threads that have started and not returned
    ret,                \* the last call of a helper made on its own: inputs and result
    lisp,               \* zedrouter: deferral variables, lisp.config and the LISP processes
    zedmanager          \* zedmanager: its context, the signals sent and the changes processed

vars == <<nv, pcr, savedPCRs, fs, tpms, bank256, pcrBank256Status, hist, inflight, ret,
          lisp, zedmanager>>
\* the variables of package evetpm
tpmVars == <<nv, pcr, savedPCRs, fs, tpms, bank256, pcrBank256Status, hist, inflight, ret>>

\* ------------------------------------------------------------------ errors
Nil == [msg |-> "nil", cause |-> "", evtLogStat |-> "", mismatch |-> <<>>, diag |-> ""]
E(m) == [Nil EXCEPT !.msg = m]
W(m, e) == [e EXCEPT !.msg = m, !.cause = IF e.cause = "" THEN e.msg ELSE e.cause]

NoKey == <<>>
Keys == {[n \in 1..vaultKeyLength |-> b] : b \in 1..NumKeys}

\* ----------------------------------------------------- go-tpm primitives
Undefined == [defined |-> FALSE, data |-> <<>>]
\* the index of the TPM credentials, written when the device was provisioned
OwnerCredential == [defined |-> TRUE, data |-> <<"credential">>]

\* tpm2.OpenTPM
OpenTPM(F, pt) == pt \notin F

\* faulty variant: the undefine is not carried out (wrong owner authorisation)
NVUndefineSpace_NotCarriedOut(nvs, idx, F, pt) == nvs

\* faulty variant: only an index that has been written can be undefined
NVUndefineSpace_OnlyWritten(nvs, idx, F, pt) ==
    IF pt \in F \/ nvs[idx].data = <<>> THEN nvs ELSE [nvs EXCEPT ![idx] = Undefined]

\* tpm2.NVUndefineSpace; every caller drops its error
NVUndefineSpace(nvs, idx, F, pt) ==
    IF pt \in F THEN nvs ELSE [nvs EXCEPT ![idx] = Undefined]

\* tpm2.NVDefineSpace: TPM_RC_NV_DEFINED when the index exists
NVDefineSpace(nvs, idx, F, pt) ==
    IF pt \in F \/ nvs[idx].defined
    THEN [ok |-> FALSE, nv |-> nvs]
    ELSE [ok |-> TRUE, nv |-> [nvs EXCEPT ![idx] = [defined |-> TRUE, data |-> <<>>]]]

\* tpm2.NVWrite
NVWrite(nvs, idx, bytes, F, pt) ==
    IF pt \in F \/ ~nvs[idx].defined
    THEN [ok |-> FALSE, nv |-> nvs]
    ELSE [ok |-> TRUE, nv |-> [nvs EXCEPT ![idx].data = <<bytes>>]]

\* tpm2.NVReadEx: fails on an undefined or never written index
NVReadEx(nvs, idx, F, pt) ==
    IF pt \in F \/ ~nvs[idx].defined \/ nvs[idx].data = <<>>
    THEN [ok |-> FALSE, data |-> <<>>]
    ELSE [ok |-> TRUE, data |-> nvs[idx].data]

\* tpm2.PolicyPCR + tpm2.PolicyGetDigest: the digest of the selected registers
PolicyDigest(pcrs) == [i \in SealingPCRSet |-> pcrs[i]]

\* The seed tpm2.Seal draws for a new object: a value no blob in NV carries.
FreshSeed(nvs) ==
    LET used == {nvs[h].data[1].seed : h \in {x \in {TpmSealedDiskPrivHdl, TpmSealedDiskPubHdl} :
                                                nvs[x].data # <<>>}}
    IN CHOOSE n \in 1..3 : n \notin used /\ \A m \in 1..(n - 1) : m \in used

\* faulty variant: the sensitive area is built from a zeroed buffer
Seal_ZeroedPayload(policy, key, seed) ==
    [priv |-> [secret |-> [n \in DOMAIN key |-> 0], seed |-> seed],
     public |-> [authPolicy |-> policy, seed |-> seed]]

\* faulty variant: the public part does not belong to the private part
Seal_UnpairedParts(policy, key, seed) ==
    [priv |-> [secret |-> key, seed |-> seed],
     public |-> [authPolicy |-> policy, seed |-> seed + 1]]

\* tpm2.Seal under the storage root key: (private, public); the seed makes
\* each object unique and ties the two blobs together
Seal(policy, key, seed) ==
    [priv |-> [secret |-> key, seed |-> seed],
     public |-> [authPolicy |-> policy, seed |-> seed]]

\* tpm2.Load: the private part must belong to the public part
Load(pub, priv) == pub.seed = priv.seed

\* tpm2.UnsealWithSession: the session digest must equal the object's policy
UnsealWithSession(sessionDigest, pub, priv) ==
    IF sessionDigest = pub.authPolicy
    THEN [ok |-> TRUE, key |-> priv.secret]
    ELSE [ok |-> FALSE, key |-> NoKey]

\* PolicyPCRSession: StartAuthSession, PolicyPCR, PolicyGetDigest
PolicyPCRSession(pcrs, F, caller) ==
    IF <<caller, "StartAuthSession", 0>> \in F
    THEN [ok |-> FALSE, policy |-> PolicyDigest(pcrs), live |-> FALSE]
    ELSE IF <<caller, "PolicyPCR", 0>> \in F \/ <<caller, "PolicyGetDigest", 0>> \in F
    THEN [ok |-> FALSE, policy |-> PolicyDigest(pcrs), live |-> FALSE]
    ELSE [ok |-> TRUE, policy |-> PolicyDigest(pcrs), live |-> TRUE]

\* ------------------------------------------------- measurement-log archivist
NoFile == <<>>

\* os.Rename: the destination is replaced, the source disappears
Rename(fsys, old, new) == [fsys EXCEPT ![new] = fsys[old], ![old] = NoFile]

FileExists(fsys, path) == fsys[path] # NoFile

\* getMappedTpmsPath: glob of syfsTpmDir; an empty result is an error
getMappedTpmsPath(devs, F, caller) ==
    IF <<caller, "Glob", 0>> \in F \/ Len(devs) = 0
    THEN [ok |-> FALSE, paths |-> <<>>]
    ELSE [ok |-> TRUE, paths |-> [d \in 1..Len(devs) |-> d]]

countMappedTpms(devs, F, caller) ==
    LET r == getMappedTpmsPath(devs, F, caller)
    IN [ok |-> r.ok, n |-> Len(r.paths)]

\* getMeasurementLogFiles: the mapped TPMs that expose binary_bios_measurements
getMeasurementLogFiles(devs, F, caller) ==
    LET r == getMappedTpmsPath(devs, F, caller)
    IN [ok |-> r.ok, paths |-> SelectSeq(r.paths, LAMBDA d : devs[d])]

\* faulty variant: a failed second rename leaves the first rename in place
RECURSIVE backupLoop_NoUndo(_, _, _, _, _)
backupLoop_NoUndo(fsys, i, counted, leftToBackup, F) ==
    IF i >= counted THEN [fs |-> fsys, left |-> leftToBackup]
    ELSE LET sealSuccessPath == TpmEvtLogSavePattern(MeasurementLogSealSuccess, i)
             unsealFailPath == TpmEvtLogSavePattern(MeasurementLogUnsealFail, i)
             sealSuccessBackupPath == TpmEvtLogCollectPattern(sealSuccessPath)
             unsealFailBackupPath == TpmEvtLogCollectPattern(unsealFailPath)
         IN IF FileExists(fsys, sealSuccessPath) /\ FileExists(fsys, unsealFailPath)
            THEN IF <<"backupCopiedMeasurementLogs", "RenameSealSuccess", i>> \in F
                 THEN backupLoop_NoUndo(fsys, i + 1, counted, leftToBackup, F)
                 ELSE LET f1 == Rename(fsys, sealSuccessPath, sealSuccessBackupPath)
                      IN IF <<"backupCopiedMeasurementLogs", "RenameUnsealFail", i>> \in F
                         THEN backupLoop_NoUndo(f1, i + 1, counted, leftToBackup, F)
                         ELSE backupLoop_NoUndo(Rename(f1, unsealFailPath, unsealFailBackupPath),
                                                i + 1, counted, leftToBackup - 1, F)
            ELSE backupLoop_NoUndo(fsys, i + 1, counted, leftToBackup - 1, F)

RECURSIVE backupLoop(_, _, _, _, _)
backupLoop(fsys, i, counted, leftToBackup, F) ==
    IF i >= counted THEN [fs |-> fsys, left |-> leftToBackup]
    ELSE LET sealSuccessPath == TpmEvtLogSavePattern(MeasurementLogSealSuccess, i)
             unsealFailPath == TpmEvtLogSavePattern(MeasurementLogUnsealFail, i)
             sealSuccessBackupPath == TpmEvtLogCollectPattern(sealSuccessPath)
             unsealFailBackupPath == TpmEvtLogCollectPattern(unsealFailPath)
         IN IF FileExists(fsys, sealSuccessPath) /\ FileExists(fsys, unsealFailPath)
            THEN IF <<"backupCopiedMeasurementLogs", "RenameSealSuccess", i>> \in F
                 THEN backupLoop(fsys, i + 1, counted, leftToBackup, F)
                 ELSE LET f1 == Rename(fsys, sealSuccessPath, sealSuccessBackupPath)
                      IN IF <<"backupCopiedMeasurementLogs", "RenameUnsealFail", i>> \in F
                         THEN LET f2 == IF <<"backupCopiedMeasurementLogs", "RenameBack", i>> \in F
                                        THEN f1
                                        ELSE Rename(f1, sealSuccessBackupPath, sealSuccessPath)
                              IN backupLoop(f2, i + 1, counted, leftToBackup, F)
                         ELSE backupLoop(Rename(f1, unsealFailPath, unsealFailBackupPath),
                                         i + 1, counted, leftToBackup - 1, F)
            ELSE backupLoop(fsys, i + 1, counted, leftToBackup - 1, F)

backupCopiedMeasurementLogs(fsys, devs, F) ==
    LET c == countMappedTpms(devs, F, "backupCopiedMeasurementLogs")
    IN IF ~c.ok THEN [ok |-> FALSE, fs |-> fsys, left |-> 0]
       ELSE LET r == backupLoop(fsys, 0, c.n, c.n, F)
            IN [ok |-> r.left = 0, fs |-> r.fs, left |-> r.left]

\* os.Remove; the caller drops its error
Remove(fsys, path, F, pt) == IF pt \in F THEN fsys ELSE [fsys EXCEPT ![path] = NoFile]

RECURSIVE removeLoop(_, _, _, _)
removeLoop(fsys, i, counted, F) ==
    IF i >= counted THEN fsys
    ELSE LET sealSuccessPath == TpmEvtLogSavePattern(MeasurementLogSealSuccess, i)
             unsealFailPath == TpmEvtLogSavePattern(MeasurementLogUnsealFail, i)
             f1 == Remove(fsys, sealSuccessPath, F,
                          <<"removeCopiedMeasurementLogs", "RemoveSealSuccess", i>>)
             f2 == Remove(f1, unsealFailPath, F,
                          <<"removeCopiedMeasurementLogs", "RemoveUnsealFail", i>>)
         IN removeLoop(f2, i + 1, counted, F)

removeCopiedMeasurementLogs(fsys, devs, F) ==
    LET c == countMappedTpms(devs, F, "removeCopiedMeasurementLogs")
    IN IF ~c.ok THEN [ok |-> FALSE, fs |-> fsys]
       ELSE [ok |-> TRUE, fs |-> removeLoop(fsys, 0, c.n, F)]

\* faulty variant: the copy is named after the 1-based position of the device
RECURSIVE copyLoop_OneBased(_, _, _, _, _, _, _)
copyLoop_OneBased(fsys, paths, n, leftToCopy, dstPath, F, caller) ==
    IF n > Len(paths) THEN [fs |-> fsys, left |-> leftToCopy]
    ELSE IF <<caller, "ReadFile", n - 1>> \in F \/ <<caller, "WriteRename", n - 1>> \in F
         THEN copyLoop_OneBased(fsys, paths, n + 1, leftToCopy, dstPath, F, caller)
         ELSE LET copyPath == TpmEvtLogSavePattern(dstPath, n)
                  measurementLogContent == [dev |-> paths[n]]
              IN copyLoop_OneBased(
                     IF copyPath \in DOMAIN fsys
                     THEN [fsys EXCEPT ![copyPath] = <<measurementLogContent>>] ELSE fsys,
                     paths, n + 1, leftToCopy - 1, dstPath, F, caller)

\* the loop of copyMeasurementLog; n is the 1-based position in paths, so the
\* destination index is n - 1
\* faulty variant: the loop ends at the first file that cannot be copied
RECURSIVE copyLoop_StopsAtFailure(_, _, _, _, _, _, _)
copyLoop_StopsAtFailure(fsys, paths, n, leftToCopy, dstPath, F, caller) ==
    IF n > Len(paths) THEN [fs |-> fsys, left |-> leftToCopy]
    ELSE IF <<caller, "ReadFile", n - 1>> \in F \/ <<caller, "WriteRename", n - 1>> \in F
         THEN [fs |-> fsys, left |-> leftToCopy]
         ELSE LET copyPath == TpmEvtLogSavePattern(dstPath, n - 1)
                  measurementLogContent == [dev |-> paths[n]]
              IN copyLoop_StopsAtFailure([fsys EXCEPT ![copyPath] = <<measurementLogContent>>],
                                         paths, n + 1, leftToCopy - 1, dstPath, F, caller)

RECURSIVE copyLoop(_, _, _, _, _, _, _)
copyLoop(fsys, paths, n, leftToCopy, dstPath, F, caller) ==
    IF n > Len(paths) THEN [fs |-> fsys, left |-> leftToCopy]
    ELSE IF <<caller, "ReadFile", n - 1>> \in F \/ <<caller, "WriteRename", n - 1>> \in F
         THEN copyLoop(fsys, paths, n + 1, leftToCopy, dstPath, F, caller)
         ELSE LET copyPath == TpmEvtLogSavePattern(dstPath, n - 1)
                  measurementLogContent == [dev |-> paths[n]]
              IN copyLoop([fsys EXCEPT ![copyPath] = <<measurementLogContent>>],
                          paths, n + 1, leftToCopy - 1, dstPath, F, caller)

\* faulty variant: every copy is stored under the seal-success name
copyMeasurementLog_AlwaysSealSuccess(fsys, devs, dstPath, F, caller) ==
    LET e == getMeasurementLogFiles(devs, F, caller)
    IN IF ~e.ok THEN [ok |-> FALSE, fs |-> fsys, left |-> 0]
       ELSE LET r == copyLoop(fsys, e.paths, 1, Len(e.paths), MeasurementLogSealSuccess,
                              F, caller)
            IN [ok |-> r.left = 0, fs |-> r.fs, left |-> r.left]

\* copyMeasurementLog(dstPath); the content of a copy is the log of the TPM
\* it was read from
copyMeasurementLog(fsys, devs, dstPath, F, caller) ==
    LET e == getMeasurementLogFiles(devs, F, caller)
    IN IF ~e.ok THEN [ok |-> FALSE, fs |-> fsys, left |-> 0]
       ELSE LET r == copyLoop(fsys, e.paths, 1, Len(e.paths), dstPath, F, caller)
            IN [ok |-> r.left = 0, fs |-> r.fs, left |-> r.left]

\* ----------------------------------------------- PCR snapshot and diagnoser
\* readDiskKeySealingPCRs: one tpm2.ReadPCR per register of DiskKeySealingPCRs
readDiskKeySealingPCRs(pcrs, F, caller) ==
    IF <<caller, "readDiskKeySealingPCRs.OpenTPM", 0>> \in F
       \/ <<caller, "readDiskKeySealingPCRs.ReadPCR", 0>> \in F
    THEN [ok |-> FALSE, pcrs |-> <<>>]
    ELSE [ok |-> TRUE, pcrs |-> [v \in SealingPCRSet |-> pcrs[v]]]

\* faulty variant: an existing snapshot file is kept instead of replaced
saveDiskKeySealingPCRs_KeepOld(file, pcrs, F) ==
    IF <<"saveDiskKeySealingPCRs", "OpenTPM", 0>> \in F
    THEN [ok |-> FALSE, file |-> file]
    ELSE LET r == readDiskKeySealingPCRs(pcrs, F, "saveDiskKeySealingPCRs")
         IN IF ~r.ok \/ <<"saveDiskKeySealingPCRs", "WriteRename", 0>> \in F
            THEN [ok |-> FALSE, file |-> file]
            ELSE [ok |-> TRUE, file |-> IF file = NoFile THEN <<r.pcrs>> ELSE file]

\* saveDiskKeySealingPCRs(TpmSavedDiskSealingPcrs): the new file, or failure
saveDiskKeySealingPCRs(file, pcrs, F) ==
    IF <<"saveDiskKeySealingPCRs", "OpenTPM", 0>> \in F
    THEN [ok |-> FALSE, file |-> file]
    ELSE LET r == readDiskKeySealingPCRs(pcrs, F, "saveDiskKeySealingPCRs")
         IN IF ~r.ok \/ <<"saveDiskKeySealingPCRs", "WriteRename", 0>> \in F
            THEN [ok |-> FALSE, file |-> file]
            ELSE [ok |-> TRUE, file |-> <<r.pcrs>>]

\* sort.Ints
RECURSIVE Insert(_, _)
Insert(x, sorted) ==
    IF sorted = <<>> THEN <<x>>
    ELSE IF x <= Head(sorted) THEN <<x>> \o sorted
    ELSE <<Head(sorted)>> \o Insert(x, Tail(sorted))

RECURSIVE SortInts(_)
SortInts(s) == IF s = <<>> THEN <<>> ELSE Insert(Head(s), SortInts(Tail(s)))

\* faulty variant: the list is returned in the order the map was visited
findMismatchingPCRs_Unsorted(file, pcrs, order, F) ==
    IF <<"findMismatchingPCRs", "Open", 0>> \in F \/ file = NoFile
    THEN [ok |-> FALSE, mismatch |-> <<>>, err |-> "open saved PCRs failed"]
    ELSE IF <<"findMismatchingPCRs", "Decode", 0>> \in F
    THEN [ok |-> FALSE, mismatch |-> <<>>, err |-> "decode saved PCRs failed"]
    ELSE LET saved == file[1]
             r == readDiskKeySealingPCRs(pcrs, F, "findMismatchingPCRs")
         IN IF ~r.ok
            THEN [ok |-> FALSE, mismatch |-> <<>>, err |-> "readDiskKeySealingPCRs failed"]
            ELSE LET visited == SelectSeq(order, LAMBDA i : i \in DOMAIN saved)
                     mismatch == SelectSeq(visited, LAMBDA i : r.pcrs[i] # saved[i])
                 IN [ok |-> TRUE, mismatch |-> mismatch, err |-> "nil"]

\* faulty variant: a saved index that the live reading lacks is skipped
findMismatchingPCRs_SkipsMissing(file, pcrs, order, F) ==
    IF <<"findMismatchingPCRs", "Open", 0>> \in F \/ file = NoFile
    THEN [ok |-> FALSE, mismatch |-> <<>>, err |-> "open saved PCRs failed"]
    ELSE IF <<"findMismatchingPCRs", "Decode", 0>> \in F
    THEN [ok |-> FALSE, mismatch |-> <<>>, err |-> "decode saved PCRs failed"]
    ELSE LET saved == file[1]
             r == readDiskKeySealingPCRs(pcrs, F, "findMismatchingPCRs")
         IN IF ~r.ok
            THEN [ok |-> FALSE, mismatch |-> <<>>, err |-> "readDiskKeySealingPCRs failed"]
            ELSE LET visited == SelectSeq(order, LAMBDA i : i \in DOMAIN saved
                                                            /\ i \in DOMAIN r.pcrs)
                     mismatch == SelectSeq(visited, LAMBDA i : r.pcrs[i] # saved[i])
                 IN [ok |-> TRUE, mismatch |-> SortInts(mismatch), err |-> "nil"]

\* findMismatchingPCRs(TpmSavedDiskSealingPcrs); order is the order in which
\* Go's range visits the keys of savedPCRs in this run
findMismatchingPCRs(file, pcrs, order, F) ==
    IF <<"findMismatchingPCRs", "Open", 0>> \in F \/ file = NoFile
    THEN [ok |-> FALSE, mismatch |-> <<>>, err |-> "open saved PCRs failed"]
    ELSE IF <<"findMismatchingPCRs", "Decode", 0>> \in F
    THEN [ok |-> FALSE, mismatch |-> <<>>, err |-> "decode saved PCRs failed"]
    ELSE LET saved == file[1]
             r == readDiskKeySealingPCRs(pcrs, F, "findMismatchingPCRs")
         IN IF ~r.ok
            THEN [ok |-> FALSE, mismatch |-> <<>>, err |-> "readDiskKeySealingPCRs failed"]
            ELSE IF \E i \in DOMAIN saved : i \notin DOMAIN r.pcrs
            THEN [ok |-> FALSE, mismatch |-> <<>>,
                  err |-> "saved PCR index doesn't exist at run-time PCRs list"]
            ELSE LET visited == SelectSeq(order, LAMBDA i : i \in DOMAIN saved)
                     mismatch == SelectSeq(visited, LAMBDA i : r.pcrs[i] # saved[i])
                 IN [ok |-> TRUE, mismatch |-> SortInts(mismatch), err |-> "nil"]

\* ------------------------------------------------------- seal/unseal engine
\* The part of the state an operation can change.
World == [nv |-> nv, savedPCRs |-> savedPCRs, fs |-> fs]

\* faulty variant: the snapshot is saved before the blobs are defined and written
SealDiskKey_SnapshotFirst(w, key, F) ==
    IF ~OpenTPM(F, <<"SealDiskKey", "OpenTPM", 0>>)
    THEN [w |-> w, err |-> E("OpenTPM failed")]
    ELSE
    LET nv1 == NVUndefineSpace(w.nv, TpmSealedDiskPubHdl, F,
                               <<"SealDiskKey", "NVUndefineSpace", TpmSealedDiskPubHdl>>)
        nv2 == NVUndefineSpace(nv1, TpmSealedDiskPrivHdl, F,
                               <<"SealDiskKey", "NVUndefineSpace", TpmSealedDiskPrivHdl>>)
        w2 == [w EXCEPT !.nv = nv2,
                        !.savedPCRs = saveDiskKeySealingPCRs(w.savedPCRs, pcr, {}).file]
        ps == PolicyPCRSession(pcr, F, "SealDiskKey")
    IN
    IF ~ps.ok THEN [w |-> w2, err |-> E("PolicyPCRSession failed")]
    ELSE IF <<"SealDiskKey", "FlushContext", 0>> \in F
    THEN [w |-> w2, err |-> E("flushing session handle failed")]
    ELSE IF <<"SealDiskKey", "Seal", 0>> \in F
    THEN [w |-> w2, err |-> E("sealing the disk key into TPM failed")]
    ELSE
    LET sealed == Seal(ps.policy, key, FreshSeed(w.nv))
        w3 == w2
        d1 == NVDefineSpace(nv2, TpmSealedDiskPrivHdl, F,
                            <<"SealDiskKey", "NVDefineSpace", TpmSealedDiskPrivHdl>>)
    IN
    IF ~d1.ok THEN [w |-> w3, err |-> E("NVDefineSpace TpmSealedDiskPrivHdl failed")]
    ELSE
    LET w1 == NVWrite(d1.nv, TpmSealedDiskPrivHdl, sealed.priv, F,
                      <<"SealDiskKey", "NVWrite", TpmSealedDiskPrivHdl>>)
    IN
    IF ~w1.ok
    THEN [w |-> [w3 EXCEPT !.nv = d1.nv], err |-> E("NVWrite TpmSealedDiskPrivHdl failed")]
    ELSE
    LET d2 == NVDefineSpace(w1.nv, TpmSealedDiskPubHdl, F,
                            <<"SealDiskKey", "NVDefineSpace", TpmSealedDiskPubHdl>>)
    IN
    IF ~d2.ok
    THEN [w |-> [w3 EXCEPT !.nv = w1.nv], err |-> E("NVDefineSpace TpmSealedDiskPubHdl failed")]
    ELSE
    LET wr2 == NVWrite(d2.nv, TpmSealedDiskPubHdl, sealed.public, F,
                       <<"SealDiskKey", "NVWrite", TpmSealedDiskPubHdl>>)
    IN
    IF ~wr2.ok
    THEN [w |-> [w3 EXCEPT !.nv = d2.nv], err |-> E("NVWrite TpmSealedDiskPubHdl failed")]
    ELSE
    LET w4 == [w3 EXCEPT !.nv = wr2.nv]
        sv == saveDiskKeySealingPCRs(w.savedPCRs, pcr, F)
    IN
    IF ~sv.ok THEN [w |-> w4, err |-> E("saving snapshot of sealing PCRs failed")]
    ELSE
    LET w5 == [w4 EXCEPT !.savedPCRs = sv.file]
        bk == backupCopiedMeasurementLogs(w.fs, tpms, F)
    IN
    IF ~bk.ok
    THEN [w |-> [w5 EXCEPT !.fs = bk.fs],
          err |-> E("collecting previous snapshot of TPM event log failed")]
    ELSE
    LET rm == removeCopiedMeasurementLogs(bk.fs, tpms, F)
    IN
    IF ~rm.ok
    THEN [w |-> [w5 EXCEPT !.fs = rm.fs],
          err |-> E("removing old copies of TPM measurement log failed")]
    ELSE
    LET cp == copyMeasurementLog(rm.fs, tpms, MeasurementLogSealSuccess, F, "SealDiskKey")
    IN
    IF ~cp.ok
    THEN [w |-> [w5 EXCEPT !.fs = cp.fs],
          err |-> E("copying current TPM measurement log failed")]
    ELSE [w |-> [w5 EXCEPT !.fs = cp.fs], err |-> Nil]

\* SealDiskKey(key, DiskKeySealingPCRs), run on world w
SealDiskKey(w, key, F) ==
    IF ~OpenTPM(F, <<"SealDiskKey", "OpenTPM", 0>>)
    THEN [w |-> w, err |-> E("OpenTPM failed")]
    ELSE
    LET nv1 == NVUndefineSpace(w.nv, TpmSealedDiskPubHdl, F,
                               <<"SealDiskKey", "NVUndefineSpace", TpmSealedDiskPubHdl>>)
        nv2 == NVUndefineSpace(nv1, TpmSealedDiskPrivHdl, F,
                               <<"SealDiskKey", "NVUndefineSpace", TpmSealedDiskPrivHdl>>)
        w2 == [w EXCEPT !.nv = nv2]
        ps == PolicyPCRSession(pcr, F, "SealDiskKey")
    IN
    IF ~ps.ok THEN [w |-> w2, err |-> E("PolicyPCRSession failed")]
    ELSE IF <<"SealDiskKey", "FlushContext", 0>> \in F
    THEN [w |-> w2, err |-> E("flushing session handle failed")]
    ELSE IF <<"SealDiskKey", "Seal", 0>> \in F
    THEN [w |-> w2, err |-> E("sealing the disk key into TPM failed")]
    ELSE
    LET sealed == Seal(ps.policy, key, FreshSeed(w.nv))
        w3 == w2
        d1 == NVDefineSpace(nv2, TpmSealedDiskPrivHdl, F,
                            <<"SealDiskKey", "NVDefineSpace", TpmSealedDiskPrivHdl>>)
    IN
    IF ~d1.ok THEN [w |-> w3, err |-> E("NVDefineSpace TpmSealedDiskPrivHdl failed")]
    ELSE
    LET w1 == NVWrite(d1.nv, TpmSealedDiskPrivHdl, sealed.priv, F,
                      <<"SealDiskKey", "NVWrite", TpmSealedDiskPrivHdl>>)
    IN
    IF ~w1.ok
    THEN [w |-> [w3 EXCEPT !.nv = d1.nv], err |-> E("NVWrite TpmSealedDiskPrivHdl failed")]
    ELSE
    LET d2 == NVDefineSpace(w1.nv, TpmSealedDiskPubHdl, F,
                            <<"SealDiskKey", "NVDefineSpace", TpmSealedDiskPubHdl>>)
    IN
    IF ~d2.ok
    THEN [w |-> [w3 EXCEPT !.nv = w1.nv], err |-> E("NVDefineSpace TpmSealedDiskPubHdl failed")]
    ELSE
    LET wr2 == NVWrite(d2.nv, TpmSealedDiskPubHdl, sealed.public, F,
                       <<"SealDiskKey", "NVWrite", TpmSealedDiskPubHdl>>)
    IN
    IF ~wr2.ok
    THEN [w |-> [w3 EXCEPT !.nv = d2.nv], err |-> E("NVWrite TpmSealedDiskPubHdl failed")]
    ELSE
    LET w4 == [w3 EXCEPT !.nv = wr2.nv]
        sv == saveDiskKeySealingPCRs(w.savedPCRs, pcr, F)
    IN
    IF ~sv.ok THEN [w |-> w4, err |-> E("saving snapshot of sealing PCRs failed")]
    ELSE
    LET w5 == [w4 EXCEPT !.savedPCRs = sv.file]
        bk == backupCopiedMeasurementLogs(w.fs, tpms, F)
    IN
    IF ~bk.ok
    THEN [w |-> [w5 EXCEPT !.fs = bk.fs],
          err |-> E("collecting previous snapshot of TPM event log failed")]
    ELSE
    LET rm == removeCopiedMeasurementLogs(bk.fs, tpms, F)
    IN
    IF ~rm.ok
    THEN [w |-> [w5 EXCEPT !.fs = rm.fs],
          err |-> E("removing old copies of TPM measurement log failed")]
    ELSE
    LET cp == copyMeasurementLog(rm.fs, tpms, MeasurementLogSealSuccess, F, "SealDiskKey")
    IN
    IF ~cp.ok
    THEN [w |-> [w5 EXCEPT !.fs = cp.fs],
          err |-> E("copying current TPM measurement log failed")]
    ELSE [w |-> [w5 EXCEPT !.fs = cp.fs], err |-> Nil]

\* The world a power failure leaves when it cuts SealDiskKey(key) off after
\* the first k of its steps that change state: NVUndefineSpace of the public
\* and of the private index, NVDefineSpace and NVWrite of the private and of
\* the public index, the save of the snapshot, the refresh of the log copies.
CutPoints == 1..8
SealDiskKeyCutOff(w, key, k) ==
    LET nv1 == NVUndefineSpace(w.nv, TpmSealedDiskPubHdl, {},
                               <<"SealDiskKey", "NVUndefineSpace", TpmSealedDiskPubHdl>>)
        nv2 == NVUndefineSpace(nv1, TpmSealedDiskPrivHdl, {},
                               <<"SealDiskKey", "NVUndefineSpace", TpmSealedDiskPrivHdl>>)
        sealed == Seal(PolicyDigest(pcr), key, FreshSeed(w.nv))
        nv3 == NVDefineSpace(nv2, TpmSealedDiskPrivHdl, {},
                             <<"SealDiskKey", "NVDefineSpace", TpmSealedDiskPrivHdl>>).nv
        nv4 == NVWrite(nv3, TpmSealedDiskPrivHdl, sealed.priv, {},
                       <<"SealDiskKey", "NVWrite", TpmSealedDiskPrivHdl>>).nv
        nv5 == NVDefineSpace(nv4, TpmSealedDiskPubHdl, {},
                             <<"SealDiskKey", "NVDefineSpace", TpmSealedDiskPubHdl>>).nv
        nv6 == NVWrite(nv5, TpmSealedDiskPubHdl, sealed.public, {},
                       <<"SealDiskKey", "NVWrite", TpmSealedDiskPubHdl>>).nv
        nvAt == <<nv1, nv2, nv3, nv4, nv5, nv6>>
    IN IF k <= 6 THEN [w EXCEPT !.nv = nvAt[k]]
       ELSE IF k = 7
       THEN [w EXCEPT !.nv = nv6,
                      !.savedPCRs = saveDiskKeySealingPCRs(w.savedPCRs, pcr, {}).file]
       ELSE SealDiskKey(w, key, {}).w

\* faulty variant: the mismatch diagnosis is skipped when the log copy failed
UnsealDiskKey_NoDiagnosisAfterCopyFailure(w, order, F) ==
    IF ~OpenTPM(F, <<"UnsealDiskKey", "OpenTPM", 0>>)
    THEN [w |-> w, key |-> NoKey, err |-> E("OpenTPM failed")]
    ELSE
    LET priv == NVReadEx(w.nv, TpmSealedDiskPrivHdl, F,
                         <<"UnsealDiskKey", "NVReadEx", TpmSealedDiskPrivHdl>>)
    IN
    IF ~priv.ok
    THEN [w |-> w, key |-> NoKey, err |-> E("NVReadEx TpmSealedDiskPrivHdl failed")]
    ELSE
    LET pub == NVReadEx(w.nv, TpmSealedDiskPubHdl, F,
                        <<"UnsealDiskKey", "NVReadEx", TpmSealedDiskPubHdl>>)
    IN
    IF ~pub.ok
    THEN [w |-> w, key |-> NoKey, err |-> E("NVReadEx TpmSealedDiskPubHdl failed")]
    ELSE IF <<"UnsealDiskKey", "Load", 0>> \in F \/ ~Load(pub.data[1], priv.data[1])
    THEN [w |-> w, key |-> NoKey, err |-> E("loading the disk key into TPM failed")]
    ELSE
    LET ps == PolicyPCRSession(pcr, F, "UnsealDiskKey")
    IN
    IF ~ps.ok
    THEN [w |-> w, key |-> NoKey, err |-> E("PolicyPCRSession failed")]
    ELSE
    LET u == IF <<"UnsealDiskKey", "UnsealWithSession", 0>> \in F
             THEN [ok |-> FALSE, key |-> NoKey]
             ELSE UnsealWithSession(ps.policy, pub.data[1], priv.data[1])
    IN
    IF u.ok THEN [w |-> w, key |-> u.key, err |-> Nil]
    ELSE
    LET cp == copyMeasurementLog(w.fs, tpms, MeasurementLogUnsealFail, F, "UnsealDiskKey")
        evtLogStat == IF cp.ok THEN "copied (failed unseal) TPM measurement log"
                      ELSE "copying (failed unseal) TPM measurement log failed"
        mm == IF cp.ok THEN findMismatchingPCRs(w.savedPCRs, pcr, order, F)
              ELSE [ok |-> FALSE, mismatch |-> <<>>, err |-> "not run"]
        cause == IF <<"UnsealDiskKey", "UnsealWithSession", 0>> \in F
                 THEN "hardware failure" ELSE "policy check failed"
    IN
    [w |-> [w EXCEPT !.fs = cp.fs], key |-> NoKey,
     err |-> [msg |-> "UnsealWithSession failed", cause |-> cause,
              evtLogStat |-> evtLogStat,
              mismatch |-> mm.mismatch, diag |-> mm.err]]

\* faulty variant: a failing policy session also writes the unseal-failure copy
UnsealDiskKey_CopiesLogOnSessionFailure(w, order, F) ==
    IF ~OpenTPM(F, <<"UnsealDiskKey", "OpenTPM", 0>>)
    THEN [w |-> w, key |-> NoKey, err |-> E("OpenTPM failed")]
    ELSE
    LET priv == NVReadEx(w.nv, TpmSealedDiskPrivHdl, F,
                         <<"UnsealDiskKey", "NVReadEx", TpmSealedDiskPrivHdl>>)
    IN
    IF ~priv.ok
    THEN [w |-> w, key |-> NoKey, err |-> E("NVReadEx TpmSealedDiskPrivHdl failed")]
    ELSE
    LET pub == NVReadEx(w.nv, TpmSealedDiskPubHdl, F,
                        <<"UnsealDiskKey", "NVReadEx", TpmSealedDiskPubHdl>>)
    IN
    IF ~pub.ok
    THEN [w |-> w, key |-> NoKey, err |-> E("NVReadEx TpmSealedDiskPubHdl failed")]
    ELSE IF <<"UnsealDiskKey", "Load", 0>> \in F \/ ~Load(pub.data[1], priv.data[1])
    THEN [w |-> w, key |-> NoKey, err |-> E("loading the disk key into TPM failed")]
    ELSE
    LET ps == PolicyPCRSession(pcr, F, "UnsealDiskKey")
    IN
    IF ~ps.ok
    THEN [w |-> [w EXCEPT !.fs = copyMeasurementLog(w.fs, tpms, MeasurementLogUnsealFail, F,
                                                    "UnsealDiskKey").fs],
          key |-> NoKey, err |-> E("PolicyPCRSession failed")]
    ELSE
    LET u == IF <<"UnsealDiskKey", "UnsealWithSession", 0>> \in F
             THEN [ok |-> FALSE, key |-> NoKey]
             ELSE UnsealWithSession(ps.policy, pub.data[1], priv.data[1])
    IN
    IF u.ok THEN [w |-> w, key |-> u.key, err |-> Nil]
    ELSE
    LET cp == copyMeasurementLog(w.fs, tpms, MeasurementLogUnsealFail, F, "UnsealDiskKey")
        evtLogStat == IF cp.ok THEN "copied (failed unseal) TPM measurement log"
                      ELSE "copying (failed unseal) TPM measurement log failed"
        mm == findMismatchingPCRs(w.savedPCRs, pcr, order, F)
        cause == IF <<"UnsealDiskKey", "UnsealWithSession", 0>> \in F
                 THEN "hardware failure" ELSE "policy check failed"
    IN
    [w |-> [w EXCEPT !.fs = cp.fs], key |-> NoKey,
     err |-> [msg |-> "UnsealWithSession failed", cause |-> cause,
              evtLogStat |-> evtLogStat,
              mismatch |-> mm.mismatch, diag |-> mm.err]]

\* UnsealDiskKey(DiskKeySealingPCRs), run on world w
UnsealDiskKey(w, order, F) ==
    IF ~OpenTPM(F, <<"UnsealDiskKey", "OpenTPM", 0>>)
    THEN [w |-> w, key |-> NoKey, err |-> E("OpenTPM failed")]
    ELSE
    LET priv == NVReadEx(w.nv, TpmSealedDiskPrivHdl, F,
                         <<"UnsealDiskKey", "NVReadEx", TpmSealedDiskPrivHdl>>)
    IN
    IF ~priv.ok
    THEN [w |-> w, key |-> NoKey, err |-> E("NVReadEx TpmSealedDiskPrivHdl failed")]
    ELSE
    LET pub == NVReadEx(w.nv, TpmSealedDiskPubHdl, F,
                        <<"UnsealDiskKey", "NVReadEx", TpmSealedDiskPubHdl>>)
    IN
    IF ~pub.ok
    THEN [w |-> w, key |-> NoKey, err |-> E("NVReadEx TpmSealedDiskPubHdl failed")]
    ELSE IF <<"UnsealDiskKey", "Load", 0>> \in F \/ ~Load(pub.data[1], priv.data[1])
    THEN [w |-> w, key |-> NoKey, err |-> E("loading the disk key into TPM failed")]
    ELSE
    LET ps == PolicyPCRSession(pcr, F, "UnsealDiskKey")
    IN
    IF ~ps.ok
    THEN [w |-> w, key |-> NoKey, err |-> E("PolicyPCRSession failed")]
    ELSE
    LET u == IF <<"UnsealDiskKey", "UnsealWithSession", 0>> \in F
             THEN [ok |-> FALSE, key |-> NoKey]
             ELSE UnsealWithSession(ps.policy, pub.data[1], priv.data[1])
    IN
    IF u.ok THEN [w |-> w, key |-> u.key, err |-> Nil]
    ELSE
    LET cp == copyMeasurementLog(w.fs, tpms, MeasurementLogUnsealFail, F, "UnsealDiskKey")
        evtLogStat == IF cp.ok THEN "copied (failed unseal) TPM measurement log"
                      ELSE "copying (failed unseal) TPM measurement log failed"
        mm == findMismatchingPCRs(w.savedPCRs, pcr, order, F)
        cause == IF <<"UnsealDiskKey", "UnsealWithSession", 0>> \in F
                 THEN "hardware failure" ELSE "policy check failed"
    IN
    [w |-> [w EXCEPT !.fs = cp.fs], key |-> NoKey,
     err |-> [msg |-> "UnsealWithSession failed", cause |-> cause,
              evtLogStat |-> evtLogStat,
              mismatch |-> mm.mismatch, diag |-> mm.err]]

\* ------------------------------------------------- vault-key lifecycle manager
\* GetRandom(numBytes); rnd is the byte pattern the hardware RNG delivers
\* faulty variant: the RNG is asked for one byte less
GetRandom_OneShort(numBytes, rnd, F, caller) ==
    IF ~OpenTPM(F, <<caller, "GetRandom.OpenTPM", 0>>) \/ <<caller, "GetRandom", 0>> \in F
    THEN [ok |-> FALSE, key |-> NoKey]
    ELSE [ok |-> TRUE, key |-> [n \in 1..(numBytes - 1) |-> rnd]]

GetRandom(numBytes, rnd, F, caller) ==
    IF ~OpenTPM(F, <<caller, "GetRandom.OpenTPM", 0>>) \/ <<caller, "GetRandom", 0>> \in F
    THEN [ok |-> FALSE, key |-> NoKey]
    ELSE [ok |-> TRUE, key |-> [n \in 1..numBytes |-> rnd]]

readDiskKey(nvs, F, caller) ==
    IF ~OpenTPM(F, <<caller, "readDiskKey.OpenTPM", 0>>)
    THEN [ok |-> FALSE, key |-> NoKey]
    ELSE LET r == NVReadEx(nvs, TpmDiskKeyHdl, F, <<caller, "readDiskKey.NVReadEx", 0>>)
         IN IF r.ok THEN [ok |-> TRUE, key |-> r.data[1]] ELSE [ok |-> FALSE, key |-> NoKey]

\* faulty variant: the key is written under the sealed-private handle
writeDiskKey_SealedHandle(nvs, key, F) ==
    IF ~OpenTPM(F, <<"writeDiskKey", "OpenTPM", 0>>)
    THEN [ok |-> FALSE, nv |-> nvs]
    ELSE LET nv1 == NVUndefineSpace(nvs, TpmSealedDiskPrivHdl, F,
                                    <<"writeDiskKey", "NVUndefineSpace", 0>>)
             d == NVDefineSpace(nv1, TpmSealedDiskPrivHdl, F,
                                <<"writeDiskKey", "NVDefineSpace", 0>>)
         IN IF ~d.ok THEN [ok |-> FALSE, nv |-> nv1]
            ELSE LET wr == NVWrite(d.nv, TpmSealedDiskPrivHdl, key, F,
                                   <<"writeDiskKey", "NVWrite", 0>>)
                 IN IF ~wr.ok THEN [ok |-> FALSE, nv |-> d.nv]
                    ELSE [ok |-> TRUE, nv |-> wr.nv]

writeDiskKey(nvs, key, F) ==
    IF ~OpenTPM(F, <<"writeDiskKey", "OpenTPM", 0>>)
    THEN [ok |-> FALSE, nv |-> nvs]
    ELSE LET nv1 == NVUndefineSpace(nvs, TpmDiskKeyHdl, F,
                                    <<"writeDiskKey", "NVUndefineSpace", 0>>)
             d == NVDefineSpace(nv1, TpmDiskKeyHdl, F, <<"writeDiskKey", "NVDefineSpace", 0>>)
         IN IF ~d.ok THEN [ok |-> FALSE, nv |-> nv1]
            ELSE LET wr == NVWrite(d.nv, TpmDiskKeyHdl, key, F,
                                   <<"writeDiskKey", "NVWrite", 0>>)
                 IN IF ~wr.ok THEN [ok |-> FALSE, nv |-> d.nv]
                    ELSE [ok |-> TRUE, nv |-> wr.nv]

\* FetchVaultKey; calls lists the functions it ran, in order
FetchVaultKey(w, rnd, F) ==
    LET rd == readDiskKey(w.nv, F, "FetchVaultKey")
    IN IF rd.ok THEN [w |-> w, key |-> rd.key, err |-> Nil, calls |-> <<"readDiskKey">>]
       ELSE LET g == GetRandom(vaultKeyLength, rnd, F, "FetchVaultKey")
            IN IF ~g.ok
               THEN [w |-> w, key |-> NoKey, err |-> E("GetRandom failed"),
                     calls |-> <<"readDiskKey", "GetRandom">>]
               ELSE LET wr == writeDiskKey(w.nv, g.key, F)
                    IN IF ~wr.ok
                       THEN [w |-> [w EXCEPT !.nv = wr.nv], key |-> NoKey,
                             err |-> E("writing legacy Key to TPM failed"),
                             calls |-> <<"readDiskKey", "GetRandom", "writeDiskKey">>]
                       ELSE [w |-> [w EXCEPT !.nv = wr.nv], key |-> g.key, err |-> Nil,
                             calls |-> <<"readDiskKey", "GetRandom", "writeDiskKey">>]

\* faulty variant: presence is decided on the sealed-public handle
isSealedKeyPresent_PublicHandle(nvs, F, caller) ==
    IF ~OpenTPM(F, <<caller, "isSealedKeyPresent.OpenTPM", 0>>) THEN FALSE
    ELSE NVReadEx(nvs, TpmSealedDiskPubHdl, F, <<caller, "isSealedKeyPresent.NVReadEx", 0>>).ok

isSealedKeyPresent(nvs, F, caller) ==
    IF ~OpenTPM(F, <<caller, "isSealedKeyPresent.OpenTPM", 0>>) THEN FALSE
    ELSE NVReadEx(nvs, TpmSealedDiskPrivHdl, F, <<caller, "isSealedKeyPresent.NVReadEx", 0>>).ok

\* faulty variant: the legacy key is never found
isLegacyKeyPresent_Never(nvs, F) == FALSE

isLegacyKeyPresent(nvs, F) == readDiskKey(nvs, F, "isLegacyKeyPresent").ok

\* pcrBankSHA256EnabledHelper: IsTpmEnabled, OpenTPM, ReadPCR(0, SHA256)
pcrBankSHA256EnabledHelper(F) ==
    /\ bank256
    /\ OpenTPM(F, <<"pcrBankSHA256EnabledHelper", "OpenTPM", 0>>)
    /\ <<"pcrBankSHA256EnabledHelper", "ReadPCR", 0>> \notin F

\* faulty variant: the bank is probed on every call
PCRBankSHA256Enabled_ProbesAgain(status, F) ==
    IF pcrBankSHA256EnabledHelper(F)
    THEN PCRBank256StatusSupported
    ELSE PCRBank256StatusNotSupported

\* PCRBankSHA256Enabled: the status cached after the call
PCRBankSHA256Enabled(status, F) ==
    IF status = PCRBank256StatusUnknown
    THEN IF pcrBankSHA256EnabledHelper(F)
         THEN PCRBank256StatusSupported
         ELSE PCRBank256StatusNotSupported
    ELSE status

\* FetchSealedVaultKey
FetchSealedVaultKey(w, status, rnd, order, F) ==
    IF PCRBankSHA256Enabled(status, F) # PCRBank256StatusSupported
    THEN LET r == FetchVaultKey(w, rnd, F)
         IN [w |-> r.w, key |-> r.key, err |-> r.err, sealArg |-> NoKey,
             calls |-> <<"FetchVaultKey">> \o r.calls]
    ELSE
    LET sealedKeyPresent == isSealedKeyPresent(w.nv, F, "FetchSealedVaultKey")
        legacyKeyPresent == isLegacyKeyPresent(w.nv, F)
        unseal(u, sealArg, calls) ==
            LET r == UnsealDiskKey(u, order, F)
            IN [w |-> r.w, key |-> r.key, err |-> r.err, sealArg |-> sealArg,
                calls |-> calls \o <<"UnsealDiskKey">>]
    IN
    IF ~sealedKeyPresent /\ ~legacyKeyPresent
    THEN LET g == GetRandom(vaultKeyLength, rnd, F, "FetchSealedVaultKey")
         IN IF ~g.ok
            THEN [w |-> w, key |-> NoKey, err |-> E("GetRandom failed"),
                  sealArg |-> NoKey, calls |-> <<"GetRandom">>]
            ELSE LET sl == SealDiskKey(w, g.key, F)
                 IN IF sl.err # Nil
                    THEN [w |-> sl.w, key |-> NoKey,
                          err |-> W("sealing the fresh disk key failed", sl.err),
                          sealArg |-> g.key, calls |-> <<"GetRandom", "SealDiskKey">>]
                    ELSE unseal(sl.w, g.key, <<"GetRandom", "SealDiskKey">>)
    ELSE IF ~sealedKeyPresent /\ legacyKeyPresent
    THEN LET rd == readDiskKey(w.nv, F, "FetchSealedVaultKey")
         IN IF ~rd.ok
            THEN [w |-> w, key |-> NoKey,
                  err |-> E("retrieving the legacy disk key from TPM failed"),
                  sealArg |-> NoKey, calls |-> <<"readDiskKey">>]
            ELSE LET sl == SealDiskKey(w, rd.key, F)
                 IN IF sl.err # Nil
                    THEN [w |-> sl.w, key |-> NoKey,
                          err |-> W("sealing the legacy disk key into TPM failed", sl.err),
                          sealArg |-> rd.key, calls |-> <<"readDiskKey", "SealDiskKey">>]
                    ELSE unseal(sl.w, rd.key, <<"readDiskKey", "SealDiskKey">>)
    ELSE unseal(w, NoKey, <<>>)

\* faulty variant: a sealed key that cannot be unsealed is removed
CompareLegacyandSealedKey_DropsUnknown(w, order, F) ==
    IF ~isSealedKeyPresent(w.nv, F, "CompareLegacyandSealedKey")
    THEN [w |-> w, type |-> SealedKeyTypeUnprotected]
    ELSE LET legacyKey == readDiskKey(w.nv, F, "CompareLegacyandSealedKey")
         IN IF ~legacyKey.ok THEN [w |-> w, type |-> SealedKeyTypeNew]
            ELSE LET unsealedKey == UnsealDiskKey(w, order, F)
                 IN IF unsealedKey.err # Nil
                    THEN [w |-> [unsealedKey.w EXCEPT !.nv[TpmSealedDiskPrivHdl] = Undefined,
                                                      !.nv[TpmSealedDiskPubHdl] = Undefined],
                          type |-> SealedKeyTypeUnknown]
                    ELSE IF legacyKey.key = unsealedKey.key
                    THEN [w |-> unsealedKey.w, type |-> SealedKeyTypeReused]
                    ELSE [w |-> unsealedKey.w, type |-> SealedKeyTypeNew]

\* faulty variant: the sealed key is unsealed before the legacy key is read
CompareLegacyandSealedKey_UnsealFirst(w, order, F) ==
    IF ~isSealedKeyPresent(w.nv, F, "CompareLegacyandSealedKey")
    THEN [w |-> w, type |-> SealedKeyTypeUnprotected]
    ELSE LET unsealedKey == UnsealDiskKey(w, order, F)
             legacyKey == readDiskKey(w.nv, F, "CompareLegacyandSealedKey")
         IN IF unsealedKey.err # Nil
            THEN [w |-> unsealedKey.w, type |-> SealedKeyTypeUnknown]
            ELSE IF ~legacyKey.ok THEN [w |-> unsealedKey.w, type |-> SealedKeyTypeNew]
            ELSE IF legacyKey.key = unsealedKey.key
            THEN [w |-> unsealedKey.w, type |-> SealedKeyTypeReused]
            ELSE [w |-> unsealedKey.w, type |-> SealedKeyTypeNew]

\* CompareLegacyandSealedKey
CompareLegacyandSealedKey(w, order, F) ==
    IF ~isSealedKeyPresent(w.nv, F, "CompareLegacyandSealedKey")
    THEN [w |-> w, type |-> SealedKeyTypeUnprotected]
    ELSE LET legacyKey == readDiskKey(w.nv, F, "CompareLegacyandSealedKey")
         IN IF ~legacyKey.ok THEN [w |-> w, type |-> SealedKeyTypeNew]
            ELSE LET unsealedKey == UnsealDiskKey(w, order, F)
                 IN IF unsealedKey.err # Nil
                    THEN [w |-> unsealedKey.w, type |-> SealedKeyTypeUnknown]
                    ELSE IF legacyKey.key = unsealedKey.key
                    THEN [w |-> unsealedKey.w, type |-> SealedKeyTypeReused]
                    ELSE [w |-> unsealedKey.w, type |-> SealedKeyTypeNew]

\* WipeOutStaleSealedKeyIfAny
WipeOutStaleSealedKeyIfAny(w, F) ==
    IF ~OpenTPM(F, <<"WipeOutStaleSealedKeyIfAny", "OpenTPM", 0>>)
    THEN [w |-> w, err |-> E("OpenTPM failed")]
    ELSE LET nv1 == NVUndefineSpace(w.nv, TpmSealedDiskPubHdl, F,
                        <<"WipeOutStaleSealedKeyIfAny", "NVUndefineSpace", TpmSealedDiskPubHdl>>)
             nv2 == NVUndefineSpace(nv1, TpmSealedDiskPrivHdl, F,
                        <<"WipeOutStaleSealedKeyIfAny", "NVUndefineSpace", TpmSealedDiskPrivHdl>>)
         IN [w |-> [w EXCEPT !.nv = nv2], err |-> Nil]

\* ------------------------------------------------ sessions and TPM handles
\* The resource calls of a run in program order: <<"OpenTPM", x>> and
\* <<"Close", x>> for the device session held in variable x of a function,
\* <<"Acquire", h>> for a TPM handle obtained from StartAuthSession or Load,
\* and <<"FlushContext", h>>.

\* rw, err := tpm2.OpenTPM(TpmDevicePath); defer rw.Close(); body
Session(rw, body) == <<<<"OpenTPM", rw>>>> \o body \o <<<<"Close", rw>>>>

\* faulty variant: a session whose set-up fails half way is left in the TPM
PolicyPCRSessionEvents_NoFlushOnError(F, caller) ==
    IF <<caller, "StartAuthSession", 0>> \in F THEN <<>>
    ELSE <<<<"Acquire", <<caller, "session">>>>>>

\* PolicyPCRSession: the deferred function flushes the session when a later
\* step fails; on success the session is handed to the caller
PolicyPCRSessionEvents(F, caller) ==
    IF <<caller, "StartAuthSession", 0>> \in F THEN <<>>
    ELSE IF <<caller, "PolicyPCR", 0>> \in F \/ <<caller, "PolicyGetDigest", 0>> \in F
    THEN <<<<"Acquire", <<caller, "session">>>>, <<"FlushContext", <<caller, "session">>>>>>
    ELSE <<<<"Acquire", <<caller, "session">>>>>>

readDiskKeySealingPCRsEvents(F, caller) ==
    IF <<caller, "readDiskKeySealingPCRs.OpenTPM", 0>> \in F THEN <<>>
    ELSE Session(<<"readDiskKeySealingPCRs", "rw">>, <<>>)

saveDiskKeySealingPCRsEvents(F) ==
    IF <<"saveDiskKeySealingPCRs", "OpenTPM", 0>> \in F THEN <<>>
    ELSE Session(<<"saveDiskKeySealingPCRs", "trw">>,
                 readDiskKeySealingPCRsEvents(F, "saveDiskKeySealingPCRs"))

findMismatchingPCRsEvents(file, F) ==
    IF \/ <<"findMismatchingPCRs", "Open", 0>> \in F
       \/ file = NoFile
       \/ <<"findMismatchingPCRs", "Decode", 0>> \in F
    THEN <<>>
    ELSE readDiskKeySealingPCRsEvents(F, "findMismatchingPCRs")

\* the results with which SealDiskKey returns after it has called
\* saveDiskKeySealingPCRs
SnapshotReached(err) ==
    \/ err = Nil
    \/ err.msg \in {"saving snapshot of sealing PCRs failed",
                    "collecting previous snapshot of TPM event log failed",
                    "removing old copies of TPM measurement log failed",
                    "copying current TPM measurement log failed"}

SealDiskKeyEvents(w, key, F) ==
    IF ~OpenTPM(F, <<"SealDiskKey", "OpenTPM", 0>>) THEN <<>>
    ELSE Session(<<"SealDiskKey", "rw">>,
             PolicyPCRSessionEvents(F, "SealDiskKey")
             \o (IF ~PolicyPCRSession(pcr, F, "SealDiskKey").ok THEN <<>>
                 ELSE <<<<"FlushContext", <<"SealDiskKey", "session">>>>>>
                      \o (IF SnapshotReached(SealDiskKey(w, key, F).err)
                          THEN saveDiskKeySealingPCRsEvents(F)
                          ELSE <<>>)))

\* the results with which UnsealDiskKey returns before tpm2.Load has given
\* it the handle of the sealed object
BeforeLoad(err) ==
    err.msg \in {"OpenTPM failed", "NVReadEx TpmSealedDiskPrivHdl failed",
                 "NVReadEx TpmSealedDiskPubHdl failed",
                 "loading the disk key into TPM failed"}

\* the deferred calls of UnsealDiskKey run last registered first: the policy
\* session, the sealed object, the device
UnsealDiskKeyEvents(w, order, F) ==
    LET r == UnsealDiskKey(w, order, F)
    IN IF ~OpenTPM(F, <<"UnsealDiskKey", "OpenTPM", 0>>) THEN <<>>
       ELSE Session(<<"UnsealDiskKey", "rw">>,
                IF BeforeLoad(r.err) THEN <<>>
                ELSE <<<<"Acquire", <<"UnsealDiskKey", "sealedObjHandle">>>>>>
                     \o PolicyPCRSessionEvents(F, "UnsealDiskKey")
                     \o (IF ~PolicyPCRSession(pcr, F, "UnsealDiskKey").ok THEN <<>>
                         ELSE (IF r.err = Nil THEN <<>>
                               ELSE findMismatchingPCRsEvents(w.savedPCRs, F))
                              \o <<<<"FlushContext", <<"UnsealDiskKey", "session">>>>>>)
                     \o <<<<"FlushContext", <<"UnsealDiskKey", "sealedObjHandle">>>>>>)

\* GetRandom, readDiskKey, writeDiskKey, isSealedKeyPresent: one session each
OneSessionEvents(F, site, rw) == IF ~OpenTPM(F, site) THEN <<>> ELSE Session(rw, <<>>)

FetchVaultKeyEvents(w, rnd, F) ==
    LET r == FetchVaultKey(w, rnd, F)
    IN OneSessionEvents(F, <<"FetchVaultKey", "readDiskKey.OpenTPM", 0>>, <<"readDiskKey", "rw">>)
       \o (IF \E n \in DOMAIN r.calls : r.calls[n] = "GetRandom"
           THEN OneSessionEvents(F, <<"FetchVaultKey", "GetRandom.OpenTPM", 0>>,
                                 <<"GetRandom", "rw">>)
           ELSE <<>>)
       \o (IF \E n \in DOMAIN r.calls : r.calls[n] = "writeDiskKey"
           THEN OneSessionEvents(F, <<"writeDiskKey", "OpenTPM", 0>>, <<"writeDiskKey", "rw">>)
           ELSE <<>>)

CompareLegacyandSealedKeyEvents(w, order, F) ==
    OneSessionEvents(F, <<"CompareLegacyandSealedKey", "isSealedKeyPresent.OpenTPM", 0>>,
                     <<"isSealedKeyPresent", "rw">>)
    \o (IF ~isSealedKeyPresent(w.nv, F, "CompareLegacyandSealedKey") THEN <<>>
        ELSE OneSessionEvents(F, <<"CompareLegacyandSealedKey", "readDiskKey.OpenTPM", 0>>,
                              <<"readDiskKey", "rw">>)
             \o (IF ~readDiskKey(w.nv, F, "CompareLegacyandSealedKey").ok THEN <<>>
                 ELSE UnsealDiskKeyEvents(w, order, F)))

WipeOutStaleSealedKeyIfAnyEvents(F) ==
    OneSessionEvents(F, <<"WipeOutStaleSealedKeyIfAny", "OpenTPM", 0>>,
                     <<"WipeOutStaleSealedKeyIfAny", "rw">>)

\* ------------------------------------------------------------ call sites
Devs == 0..(MaxTpms - 1)
SealedHdls == {TpmSealedDiskPrivHdl, TpmSealedDiskPubHdl}

SealSites ==
    {<<"SealDiskKey", c, 0>> : c \in {"OpenTPM", "StartAuthSession", "PolicyPCR",
                                      "PolicyGetDigest", "FlushContext", "Seal", "Glob"}}
    \cup {<<"SealDiskKey", c, h>> : c \in {"NVUndefineSpace", "NVDefineSpace", "NVWrite"},
                                    h \in SealedHdls}
    \cup {<<"saveDiskKeySealingPCRs", c, 0>> :
            c \in {"OpenTPM", "readDiskKeySealingPCRs.OpenTPM",
                   "readDiskKeySealingPCRs.ReadPCR", "WriteRename"}}
    \cup {<<"backupCopiedMeasurementLogs", "Glob", 0>>,
          <<"removeCopiedMeasurementLogs", "Glob", 0>>}
    \cup {<<"backupCopiedMeasurementLogs", c, i>> :
            c \in {"RenameSealSuccess", "RenameUnsealFail", "RenameBack"}, i \in Devs}
    \cup {<<"removeCopiedMeasurementLogs", c, i>> :
            c \in {"RemoveSealSuccess", "RemoveUnsealFail"}, i \in Devs}
    \cup {<<"SealDiskKey", c, i>> : c \in {"ReadFile", "WriteRename"}, i \in Devs}

UnsealSites ==
    {<<"UnsealDiskKey", c, 0>> : c \in {"OpenTPM", "Load", "StartAuthSession", "PolicyPCR",
                                        "PolicyGetDigest", "UnsealWithSession", "Glob"}}
    \cup {<<"UnsealDiskKey", "NVReadEx", h>> : h \in SealedHdls}
    \cup {<<"UnsealDiskKey", c, i>> : c \in {"ReadFile", "WriteRename"}, i \in Devs}
    \cup {<<"findMismatchingPCRs", c, 0>> :
            c \in {"Open", "Decode", "readDiskKeySealingPCRs.OpenTPM",
                   "readDiskKeySealingPCRs.ReadPCR"}}

FetchVaultKeySites ==
    {<<"FetchVaultKey", c, 0>> : c \in {"readDiskKey.OpenTPM", "readDiskKey.NVReadEx",
                                        "GetRandom.OpenTPM", "GetRandom"}}
    \cup {<<"writeDiskKey", c, 0>> :
            c \in {"OpenTPM", "NVUndefineSpace", "NVDefineSpace", "NVWrite"}}

ProbeSites ==
    {<<"pcrBankSHA256EnabledHelper", c, 0>> : c \in {"OpenTPM", "ReadPCR"}}

PresenceSites ==
    {<<"FetchSealedVaultKey", c, 0>> :
        c \in {"isSealedKeyPresent.OpenTPM", "isSealedKeyPresent.NVReadEx"}}
    \cup {<<"isLegacyKeyPresent", c, 0>> : c \in {"readDiskKey.OpenTPM", "readDiskKey.NVReadEx"}}

FetchSealedVaultKeySites ==
    ProbeSites \cup PresenceSites
    \cup {<<"FetchSealedVaultKey", c, 0>> :
            c \in {"GetRandom.OpenTPM", "GetRandom",
                   "readDiskKey.OpenTPM", "readDiskKey.NVReadEx"}}
    \cup FetchVaultKeySites \cup SealSites \cup UnsealSites

CompareSites ==
    {<<"CompareLegacyandSealedKey", c, 0>> :
        c \in {"isSealedKeyPresent.OpenTPM", "isSealedKeyPresent.NVReadEx",
               "readDiskKey.OpenTPM", "readDiskKey.NVReadEx"}}
    \cup UnsealSites

WipeSites ==
    {<<"WipeOutStaleSealedKeyIfAny", "OpenTPM", 0>>}
    \cup {<<"WipeOutStaleSealedKeyIfAny", "NVUndefineSpace", h>> : h \in SealedHdls}

\* the failures of one run: none, or one failing call site
Failures(sites) == {{}} \cup {{p} : p \in sites}

\* orders in which Go's range may visit the snapshot: only the position of the
\* registers that can differ matters
RECURSIVE Orders(_)
Orders(S) ==
    IF S = {} THEN {<<>>}
    ELSE UNION {{<<x>> \o o : o \in Orders(S \ {x})} : x \in S}

MapOrders ==
    LET differ == IF savedPCRs = NoFile THEN {}
                  ELSE {i \in SealingPCRSet : savedPCRs[1][i] # pcr[i]}
        fixed == SelectSeq(DiskKeySealingPCRs, LAMBDA i : i \notin differ)
    IN {o \o fixed : o \in Orders(differ)}

\* a device with a TPM maps at least one directory; finding none is the
\* failure of the Glob call site
TpmConfigs == UNION {[1..n -> BOOLEAN] : n \in 1..MaxTpms}

\* ----------------------------------------------------------------- history
Has(calls, f) == \E n \in 1..Len(calls) : calls[n] = f

\* how the SealDiskKey call of a run ended: "none", "ok" or "failed"
SealOutcome(calls, err) ==
    IF ~Has(calls, "SealDiskKey") THEN "none"
    ELSE IF calls[Len(calls)] = "SealDiskKey" /\ err # Nil THEN "failed"
    ELSE "ok"

\* hist after a run that took world w to w2
NextHist(outcome, sealArg, w2) ==
    LET ok == IF outcome = "ok" THEN TRUE
              ELSE IF \E h \in SealedHdls : w2.nv[h] # nv[h] THEN FALSE
              ELSE hist.sealOk
    IN [sealOk |-> ok,
        sealKey |-> IF outcome = "ok" THEN sealArg ELSE IF ok THEN hist.sealKey ELSE NoKey,
        sealPCRs |-> IF outcome = "ok" THEN pcr
                     ELSE IF ok THEN hist.sealPCRs ELSE [i \in SealingPCRSet |-> 0],
        okSeals |-> IF "count" \in hist.keep /\ outcome = "ok" /\ hist.okSeals < MaxSeals
                    THEN hist.okSeals + 1 ELSE hist.okSeals,
        sealFailed |-> hist.sealFailed \/ ("count" \in hist.keep /\ outcome = "failed"),
        firstKey |-> NoKey,
        keep |-> hist.keep]

Commit(w) ==
    /\ nv' = w.nv
    /\ savedPCRs' = w.savedPCRs
    /\ fs' = w.fs

\* ------------------------------------------------------------------ threads
\* Callers that do not serialize their calls: each thread runs one call at a
\* time and the TPM commands of different threads interleave (the package
\* holds no lock; the TPM carries out one command at a time).
Threads == {"t1", "t2"}

\* a call: the operation, its next command, its key argument, its number and
\* the private blob it has read
Idle == [op |-> "none", pc |-> 0, key |-> NoKey, id |-> 0, priv |-> <<>>]

\* run: the call of each thread; started: calls begun so far; overlapped: a
\* call began while another was running; failedAt: the commands at which
\* calls have failed
NoCalls == [run |-> [t \in Threads |-> Idle], started |-> 0, overlapped |-> FALSE,
            failedAt |-> {}]

\* no helper has been called on its own
NoRet == [op |-> "none", F |-> {}, in |-> <<>>, out |-> <<>>]

\* ------------------------------------------------------------------ actions
\* ------------------------------------------------- zedrouter: LISP updates
\* the run directories the configlet functions hand to updateLisp
LispRunDirnames == {"/var/run/zedrouter/lisp", "/var/run/zedrouter/lisp.test"}

\* the calls of updateLisp that make it return early
UpdateLispSites ==
    {"TempFile", "ReadFile", "ReadDir", "Open", "Copy", "Close", "Rename",
     "grep.Start", "awk.Output"}

\* updateLisp on the zedrouter state l: eidCount is the number of EID files
\* ReadDir finds in the run directory. globalStatus is a status 1..NumStatuses,
\* 0 stands for the nil pointer.
updateLisp(l, lispRunDirname, globalStatus, separateDataPlane, eidCount, F) ==
    IF l.deferUpdate
    THEN [l EXCEPT !.deferLispRunDirname = lispRunDirname,
                   !.deferGlobalStatus = globalStatus]
    ELSE IF F \cap {"TempFile", "ReadFile", "ReadDir", "Open", "Copy", "Close"} # {}
    THEN l
    ELSE LET stopped == [l EXCEPT !.running = FALSE, !.calls = Append(@, "stopLisp")]
             written == [stopped EXCEPT
                            !.config = <<[lispRunDirname |-> lispRunDirname,
                                          dataplane |-> separateDataPlane,
                                          eids |-> eidCount]>>,
                            !.calls = Append(@, "Rename")]
         IN IF "Rename" \in F THEN stopped
            ELSE IF F \cap {"grep.Start", "awk.Output"} # {} THEN written
            ELSE IF eidCount = 0
            THEN [written EXCEPT
                     !.running = FALSE,
                     !.dataPlane = IF separateDataPlane THEN FALSE ELSE @,
                     !.calls = @ \o <<"stopLisp">>
                                 \o (IF separateDataPlane
                                     THEN <<"maybeStopLispDataPlane">> ELSE <<>>)]
            ELSE [written EXCEPT
                     !.running = TRUE,
                     !.dataPlane = IF separateDataPlane THEN TRUE ELSE @,
                     !.uplinks = globalStatus,
                     !.calls = @ \o (IF separateDataPlane
                                     THEN <<"maybeStartLispDataPlane">> ELSE <<>>)
                                 \o <<"restartLisp">>]

\* faulty variant: the deferred update is made before deferUpdate is cleared
handleLispRestart_UpdatesBeforeClearing(l, done, separateDataPlane, eidCount, F) ==
    IF done
    THEN IF l.deferUpdate
         THEN IF l.deferLispRunDirname # ""
              THEN [updateLisp(l, l.deferLispRunDirname, l.deferGlobalStatus,
                               separateDataPlane, eidCount, F)
                       EXCEPT !.deferUpdate = FALSE,
                              !.deferLispRunDirname = "", !.deferGlobalStatus = 0]
              ELSE [l EXCEPT !.deferUpdate = FALSE]
         ELSE l
    ELSE [l EXCEPT !.deferUpdate = TRUE]

handleLispRestart(l, done, separateDataPlane, eidCount, F) ==
    IF done
    THEN IF l.deferUpdate
         THEN LET cleared == [l EXCEPT !.deferUpdate = FALSE]
              IN IF l.deferLispRunDirname # ""
                 THEN [updateLisp(cleared, l.deferLispRunDirname, l.deferGlobalStatus,
                                  separateDataPlane, eidCount, F)
                          EXCEPT !.deferLispRunDirname = "", !.deferGlobalStatus = 0]
                 ELSE cleared
         ELSE l
    ELSE [l EXCEPT !.deferUpdate = TRUE]

\* A configlet is created, updated or deleted and updateLisp is called. The
\* history fields: restartPending, the last handleLispRestart had done=false;
\* deferred, the arguments of the last updateLisp made since then.
DoUpdateLisp ==
    \E lispRunDirname \in LispRunDirnames, globalStatus \in 1..NumStatuses,
       separateDataPlane \in BOOLEAN, eidCount \in 0..MaxEids,
       F \in Failures(UpdateLispSites) :
        /\ lisp' = [updateLisp([lisp EXCEPT !.calls = <<>>], lispRunDirname, globalStatus,
                               separateDataPlane, eidCount, F)
                       EXCEPT !.deferred = IF lisp.restartPending
                                           THEN <<[lispRunDirname |-> lispRunDirname,
                                                   globalStatus |-> globalStatus]>>
                                           ELSE @,
                              !.last = [op |-> "updateLisp", done |-> FALSE]]
        /\ UNCHANGED <<zedmanager, tpmVars>>

DoHandleLispRestart ==
    \E done \in BOOLEAN, separateDataPlane \in BOOLEAN, eidCount \in 0..MaxEids,
       F \in Failures(UpdateLispSites) :
        /\ lisp' = [handleLispRestart([lisp EXCEPT !.calls = <<>>], done,
                                      separateDataPlane, eidCount, F)
                       EXCEPT !.restartPending = ~done,
                              !.deferred = IF done THEN <<>> ELSE @,
                              !.last = [op |-> "handleLispRestart", done |-> done]]
        /\ UNCHANGED <<zedmanager, tpmVars>>

\* ------------------------------------------- zedmanager: restart propagation
handleConfigRestart(ctx, done) ==
    IF done
    THEN LET c == [ctx EXCEPT !.configRestarted = TRUE]
         IN IF c.verifierRestarted
            THEN [c EXCEPT !.signalRestart.identitymgr = @ + 1]
            ELSE c
    ELSE ctx

\* faulty variant: the signal does not wait for the configuration restart
handleVerifierRestarted_SignalsAtOnce(ctx, done) ==
    IF done
    THEN [ctx EXCEPT !.verifierRestarted = TRUE, !.signalRestart.identitymgr = @ + 1]
    ELSE ctx

handleVerifierRestarted(ctx, done) ==
    IF done
    THEN LET c == [ctx EXCEPT !.verifierRestarted = TRUE]
         IN IF c.configRestarted
            THEN [c EXCEPT !.signalRestart.identitymgr = @ + 1]
            ELSE c
    ELSE ctx

\* pubAppNetworkConfig.SignalRestarted
handleIdentitymgrRestarted(ctx, done) ==
    IF done THEN [ctx EXCEPT !.signalRestarted = @ + 1] ELSE ctx

handleZedrouterRestarted(ctx, done) ==
    IF done THEN [ctx EXCEPT !.signalRestart.domainmgr = @ + 1] ELSE ctx

\* no counter of signals has reached its bound
SignalsLeft ==
    /\ zedmanager.signalRestart.identitymgr < MaxSignals
    /\ zedmanager.signalRestart.domainmgr < MaxSignals
    /\ zedmanager.signalRestarted < MaxSignals

\* faulty variant: the main loop does not wait for the verifier
RunMain_NoWait ==
    /\ SignalsLeft
    /\ \E source \in {"zedagentCertObjStatusChanges", "downloaderChanges",
                      "verifierChanges", "identitymgrChanges", "subAppNetworkStatus",
                      "domainmgrChanges", "subAppInstanceConfig",
                      "subDeviceNetworkStatus"},
          kind \in {"modify", "delete", "restart"}, restarted \in BOOLEAN :
        LET ctx == IF kind # "restart" THEN zedmanager
                   ELSE CASE source = "verifierChanges" ->
                                 handleVerifierRestarted(zedmanager, restarted)
                          [] source = "identitymgrChanges" ->
                                 handleIdentitymgrRestarted(zedmanager, restarted)
                          [] source = "subAppNetworkStatus" ->
                                 handleZedrouterRestarted(zedmanager, restarted)
                          [] source = "subAppInstanceConfig" ->
                                 handleConfigRestart(zedmanager, restarted)
                          [] OTHER -> zedmanager
        IN zedmanager' = [ctx EXCEPT !.processed = @ \cup {source},
                                     !.last = [op |-> "Run", done |-> FALSE]]
    /\ UNCHANGED <<lisp, tpmVars>>

\* One round of Run's first loop: a change of the verifier status directory
\* is handled; a restart marker calls handleVerifierRestarted.
RunInitial ==
    /\ ~zedmanager.done
    /\ SignalsLeft
    /\ \E kind \in {"modify", "delete", "restart"}, restarted \in BOOLEAN :
        LET ctx == IF kind = "restart"
                   THEN handleVerifierRestarted(zedmanager, restarted)
                   ELSE zedmanager
        IN zedmanager' = [ctx EXCEPT !.processed = @ \cup {"verifierChanges"},
                                     !.done = ctx.verifierRestarted,
                                     !.last = [op |-> "Run", done |-> FALSE]]
    /\ UNCHANGED <<lisp, tpmVars>>

\* One round of Run's second loop: select takes a change of any source; a
\* restart marker calls the restart handler registered for the source.
RunMain ==
    /\ zedmanager.done
    /\ SignalsLeft
    /\ \E source \in {"zedagentCertObjStatusChanges", "downloaderChanges",
                      "verifierChanges", "identitymgrChanges", "subAppNetworkStatus",
                      "domainmgrChanges", "subAppInstanceConfig",
                      "subDeviceNetworkStatus"},
          kind \in {"modify", "delete", "restart"}, restarted \in BOOLEAN :
        LET ctx == IF kind # "restart" THEN zedmanager
                   ELSE CASE source = "verifierChanges" ->
                                 handleVerifierRestarted(zedmanager, restarted)
                          [] source = "identitymgrChanges" ->
                                 handleIdentitymgrRestarted(zedmanager, restarted)
                          [] source = "subAppNetworkStatus" ->
                                 handleZedrouterRestarted(zedmanager, restarted)
                          [] source = "subAppInstanceConfig" ->
                                 handleConfigRestart(zedmanager, restarted)
                          [] OTHER -> zedmanager
        IN zedmanager' = [ctx EXCEPT !.processed = @ \cup {source},
                                     !.last = [op |-> "Run", done |-> FALSE]]
    /\ UNCHANGED <<lisp, tpmVars>>

\* zedrouter before any LISP update and zedmanager at the start of Run
InitZed ==
    /\ lisp = [deferUpdate |-> FALSE, deferLispRunDirname |-> "", deferGlobalStatus |-> 0,
               config |-> <<>>, running |-> FALSE, dataPlane |-> FALSE, uplinks |-> 0,
               calls |-> <<>>, restartPending |-> FALSE, deferred |-> <<>>,
               last |-> [op |-> "none", done |-> FALSE]]
    /\ zedmanager = [configRestarted |-> FALSE, verifierRestarted |-> FALSE,
                     done |-> FALSE,
                     signalRestart |-> [identitymgr |-> 0, domainmgr |-> 0],
                     signalRestarted |-> 0, processed |-> {},
                     last |-> [op |-> "none", done |-> FALSE]]

\* keep names the optional histories a specification records: "count" the
\* successful and failed seals, "first" the first key FetchSealedVaultKey returned
InitWith(keep) ==
    /\ nv \in {[h \in NVIndices |-> IF h = TpmDiskKeyHdl THEN e
                                   ELSE IF h = TpmPasswdHdl THEN OwnerCredential
                                   ELSE Undefined] :
                e \in {Undefined} \cup {[defined |-> TRUE, data |-> <<k>>] : k \in Keys}}
    /\ pcr = [i \in SealingPCRSet |-> 0]
    /\ savedPCRs = NoFile
    /\ fs = [p \in Paths |-> NoFile]
    /\ tpms \in TpmConfigs
    /\ bank256 \in BOOLEAN
    /\ pcrBank256Status = PCRBank256StatusUnknown
    /\ hist = [sealOk |-> FALSE, sealKey |-> NoKey, sealPCRs |-> pcr, okSeals |-> 0,
               sealFailed |-> FALSE, firstKey |-> NoKey, keep |-> keep]
    /\ inflight = NoCalls
    /\ InitZed
    /\ ret = NoRet

DoFetchSealedVaultKey(sites) ==
    \E rnd \in 1..NumKeys, order \in MapOrders, F \in Failures(sites) :
        \E r \in {FetchSealedVaultKey(World, pcrBank256Status, rnd, order, F)} :
        \E h \in {NextHist(SealOutcome(r.calls, r.err), r.sealArg, r.w)} :
           /\ Commit(r.w)
           /\ pcrBank256Status' = PCRBankSHA256Enabled(pcrBank256Status, F)
           /\ hist' = [h EXCEPT !.firstKey = IF "first" \notin hist.keep THEN NoKey
                                             ELSE IF hist.firstKey = NoKey /\ r.err = Nil
                                             THEN r.key ELSE hist.firstKey]
           /\ UNCHANGED <<lisp, zedmanager, pcr, tpms, bank256, inflight, ret>>

DoFetchVaultKey(sites) ==
    \E rnd \in 1..NumKeys, F \in Failures(sites) :
        \E r \in {FetchVaultKey(World, rnd, F)} :
           /\ Commit(r.w)
           /\ hist' = NextHist("none", NoKey, r.w)
           /\ UNCHANGED <<lisp, zedmanager, pcr, tpms, bank256, inflight, pcrBank256Status, ret>>

DoSealDiskKey(sites) ==
    \E key \in Keys, F \in Failures(sites) :
        \E r \in {SealDiskKey(World, key, F)} :
           /\ Commit(r.w)
           /\ hist' = NextHist(SealOutcome(<<"SealDiskKey">>, r.err), key, r.w)
           /\ UNCHANGED <<lisp, zedmanager, pcr, tpms, bank256, inflight, pcrBank256Status, ret>>

DoUnsealDiskKey(sites) ==
    \E order \in MapOrders, F \in Failures(sites) :
        \E r \in {UnsealDiskKey(World, order, F)} :
           /\ Commit(r.w)
           /\ hist' = [NextHist("none", NoKey, r.w) EXCEPT !.firstKey = hist.firstKey]
           /\ UNCHANGED <<lisp, zedmanager, pcr, tpms, bank256, inflight, pcrBank256Status, ret>>

DoCompareLegacyandSealedKey(sites) ==
    \E order \in MapOrders, F \in Failures(sites) :
        \E r \in {CompareLegacyandSealedKey(World, order, F)} :
           /\ Commit(r.w)
           /\ hist' = [NextHist("none", NoKey, r.w) EXCEPT !.firstKey = hist.firstKey]
           /\ UNCHANGED <<lisp, zedmanager, pcr, tpms, bank256, inflight, pcrBank256Status, ret>>

DoWipeOutStaleSealedKeyIfAny(sites) ==
    \E F \in Failures(sites) :
        \E r \in {WipeOutStaleSealedKeyIfAny(World, F)} :
           /\ Commit(r.w)
           /\ hist' = NextHist("none", NoKey, r.w)
           /\ UNCHANGED <<lisp, zedmanager, pcr, tpms, bank256, inflight, pcrBank256Status, ret>>

\* the platform extends a register of the selection (a changed boot component)
ExtendPCR(regs) ==
    \E i \in regs :
        /\ pcr[i] < MaxPCRVal
        /\ pcr' = [pcr EXCEPT ![i] = pcr[i] + 1]
        /\ UNCHANGED <<lisp, zedmanager, nv, savedPCRs, fs, tpms, bank256, inflight, pcrBank256Status, hist, ret>>

\* a new boot: the process starts again and has no cached probe
Reboot ==
    /\ pcrBank256Status # PCRBank256StatusUnknown
    /\ pcrBank256Status' = PCRBank256StatusUnknown
    /\ UNCHANGED <<lisp, zedmanager, nv, pcr, savedPCRs, fs, tpms, bank256, inflight, hist, ret>>

\* A thread begins a call; id numbers the call and stands for the seed that
\* tpm2.Seal gives the object of a SealDiskKey call.
Begin(t, op, key) ==
    /\ inflight.run[t] = Idle
    /\ inflight.started < MaxCalls
    /\ inflight' = [inflight EXCEPT
                      !.run[t] = [Idle EXCEPT !.op = op, !.pc = 1, !.key = key,
                                              !.id = inflight.started + 1],
                      !.started = inflight.started + 1,
                      !.overlapped = inflight.overlapped
                                     \/ \E u \in Threads \ {t} : inflight.run[u] # Idle]
    /\ UNCHANGED <<lisp, zedmanager, nv, pcr, savedPCRs, fs, tpms, bank256, pcrBank256Status, hist, ret>>

\* the call of thread t moves to its next command; 0: it returns
Goto(t, next) == [inflight EXCEPT !.run[t] = IF next = 0 THEN Idle
                                             ELSE [inflight.run[t] EXCEPT !.pc = next]]
\* the call of thread t returns the error of the command step
FailAt(t, step) == [inflight EXCEPT !.run[t] = Idle,
                                    !.failedAt = inflight.failedAt \cup {step}]

\* the next TPM command of SealDiskKey in thread t: NVUndefineSpace of the
\* public and of the private index, then, with the blobs of tpm2.Seal,
\* NVDefineSpace and NVWrite of the private and of the public index
SealDiskKeyStep(t) ==
    LET c == inflight.run[t]
        sealed == Seal(PolicyDigest(pcr), c.key, c.id)
        hdl == IF c.pc \in {1, 5, 6} THEN TpmSealedDiskPubHdl ELSE TpmSealedDiskPrivHdl
        blob == IF hdl = TpmSealedDiskPubHdl THEN sealed.public ELSE sealed.priv
    IN /\ c.op = "SealDiskKey"
       /\ c.pc \in 1..6
       /\ IF c.pc \in {1, 2}
          THEN /\ nv' = NVUndefineSpace(nv, hdl, {}, <<"SealDiskKey", "NVUndefineSpace", hdl>>)
               /\ inflight' = Goto(t, c.pc + 1)
          ELSE IF c.pc \in {3, 5}
          THEN LET d == NVDefineSpace(nv, hdl, {}, <<"SealDiskKey", "NVDefineSpace", hdl>>)
               IN /\ nv' = d.nv
                  /\ inflight' = IF d.ok THEN Goto(t, c.pc + 1) ELSE FailAt(t, "NVDefineSpace")
          ELSE LET wr == NVWrite(nv, hdl, blob, {}, <<"SealDiskKey", "NVWrite", hdl>>)
               IN /\ nv' = wr.nv
                  /\ inflight' = IF wr.ok THEN Goto(t, c.pc + 1) ELSE FailAt(t, "NVWrite")
       /\ UNCHANGED <<lisp, zedmanager, pcr, savedPCRs, fs, tpms, bank256, pcrBank256Status, hist, ret>>

\* after the NV writes SealDiskKey saves the snapshot, refreshes the log
\* copies and returns
SealDiskKeyFinish(t) ==
    LET c == inflight.run[t]
        sv == saveDiskKeySealingPCRs(savedPCRs, pcr, {})
        bk == backupCopiedMeasurementLogs(fs, tpms, {})
        rm == removeCopiedMeasurementLogs(bk.fs, tpms, {})
        cp == copyMeasurementLog(rm.fs, tpms, MeasurementLogSealSuccess, {}, "SealDiskKey")
    IN /\ c.op = "SealDiskKey"
       /\ c.pc = 7
       /\ savedPCRs' = sv.file
       /\ fs' = cp.fs
       /\ inflight' = Goto(t, 0)
       /\ UNCHANGED <<lisp, zedmanager, nv, pcr, tpms, bank256, pcrBank256Status, hist, ret>>

\* the two NVUndefineSpace commands of WipeOutStaleSealedKeyIfAny in thread t
WipeOutStaleSealedKeyIfAnyStep(t) ==
    LET c == inflight.run[t]
        hdl == IF c.pc = 1 THEN TpmSealedDiskPubHdl ELSE TpmSealedDiskPrivHdl
    IN /\ c.op = "WipeOutStaleSealedKeyIfAny"
       /\ c.pc \in 1..2
       /\ nv' = NVUndefineSpace(nv, hdl, {},
                                <<"WipeOutStaleSealedKeyIfAny", "NVUndefineSpace", hdl>>)
       /\ inflight' = Goto(t, IF c.pc = 1 THEN 2 ELSE 0)
       /\ UNCHANGED <<lisp, zedmanager, pcr, savedPCRs, fs, tpms, bank256, pcrBank256Status, hist, ret>>

\* UnsealDiskKey in thread t: NVReadEx of the private index, then NVReadEx
\* of the public index and tpm2.Load of the two blobs it holds
UnsealDiskKeyStep(t) ==
    LET c == inflight.run[t]
        hdl == IF c.pc = 1 THEN TpmSealedDiskPrivHdl ELSE TpmSealedDiskPubHdl
        rd == NVReadEx(nv, hdl, {}, <<"UnsealDiskKey", "NVReadEx", hdl>>)
    IN /\ c.op = "UnsealDiskKey"
       /\ c.pc \in 1..2
       /\ inflight' = IF ~rd.ok THEN FailAt(t, "NVReadEx")
                      ELSE IF c.pc = 1
                      THEN [inflight EXCEPT !.run[t].pc = 2, !.run[t].priv = rd.data]
                      ELSE IF Load(rd.data[1], c.priv[1]) THEN Goto(t, 0)
                      ELSE FailAt(t, "Load")
       /\ UNCHANGED <<lisp, zedmanager, nv, pcr, savedPCRs, fs, tpms, bank256, pcrBank256Status, hist, ret>>

\* the calls of findMismatchingPCRs that can fail
FindMismatchSites ==
    {<<"findMismatchingPCRs", "Open", 0>>, <<"findMismatchingPCRs", "Decode", 0>>,
     <<"findMismatchingPCRs", "readDiskKeySealingPCRs.OpenTPM", 0>>,
     <<"findMismatchingPCRs", "readDiskKeySealingPCRs.ReadPCR", 0>>}

\* findMismatchingPCRs(TpmSavedDiskSealingPcrs) called on its own; the range
\* loop is reached only when no call before it fails
DoFindMismatchingPCRs ==
    \E F \in Failures(FindMismatchSites) :
    \E order \in IF F = {} /\ savedPCRs # NoFile THEN Orders(DOMAIN savedPCRs[1])
                 ELSE {<<>>} :
        /\ ret' = [op |-> "findMismatchingPCRs", F |-> F,
                   in |-> [file |-> savedPCRs, live |-> pcr],
                   out |-> findMismatchingPCRs(savedPCRs, pcr, order, F)]
        /\ UNCHANGED <<lisp, zedmanager, nv, pcr, savedPCRs, fs, tpms, bank256, pcrBank256Status, hist, inflight>>

\* The archivist's helpers called on their own, on the inputs held in ret.
BackupSites ==
    {<<"backupCopiedMeasurementLogs", "Glob", 0>>}
    \cup {<<"backupCopiedMeasurementLogs", c, i>> :
            c \in {"RenameSealSuccess", "RenameUnsealFail"}, i \in 0..(MaxMapped - 1)}

CopySites ==
    {<<"copyMeasurementLog", "Glob", 0>>}
    \cup {<<"copyMeasurementLog", c, i>> :
            c \in {"ReadFile", "WriteRename"}, i \in 0..(MaxMapped - 1)}

DoBackupCopiedMeasurementLogs ==
    /\ ret.op = "none"
    /\ ret.in.fn = "backupCopiedMeasurementLogs"
    /\ \E F \in Failures(BackupSites) :
          ret' = [ret EXCEPT !.op = "backupCopiedMeasurementLogs", !.F = F,
                             !.out = backupCopiedMeasurementLogs(ret.in.fs, ret.in.devs, F)]
    /\ UNCHANGED <<lisp, zedmanager, nv, pcr, savedPCRs, fs, tpms, bank256, pcrBank256Status, hist, inflight>>

DoCopyMeasurementLog ==
    /\ ret.op = "none"
    /\ ret.in.fn = "copyMeasurementLog"
    /\ \E F \in Failures(CopySites) :
          ret' = [ret EXCEPT !.op = "copyMeasurementLog", !.F = F,
                             !.out = copyMeasurementLog(ret.in.fs, ret.in.devs, ret.in.dstPath,
                                                        F, "copyMeasurementLog")]
    /\ UNCHANGED <<lisp, zedmanager, nv, pcr, savedPCRs, fs, tpms, bank256, pcrBank256Status, hist, inflight>>

\* The power fails while FetchSealedVaultKey runs the SealDiskKey call of its
\* fresh-install or legacy-clone branch; the device then boots again.
DoPowerFailure ==
    /\ PCRBankSHA256Enabled(pcrBank256Status, {}) = PCRBank256StatusSupported
    /\ ~isSealedKeyPresent(nv, {}, "FetchSealedVaultKey")
    /\ \E rnd \in 1..NumKeys, k \in CutPoints :
        \E key \in {IF isLegacyKeyPresent(nv, {})
                    THEN readDiskKey(nv, {}, "FetchSealedVaultKey").key
                    ELSE GetRandom(vaultKeyLength, rnd, {}, "FetchSealedVaultKey").key} :
        \E w2 \in {SealDiskKeyCutOff(World, key, k)} :
           /\ Commit(w2)
           /\ pcrBank256Status' = PCRBank256StatusUnknown
           /\ hist' = NextHist(IF k >= 6 THEN "ok" ELSE "none", key, w2)
           /\ UNCHANGED <<lisp, zedmanager, pcr, tpms, bank256, inflight, ret>>

\* The hardware changes under the running process: the TPM device or its
\* SHA256 bank appears or disappears (IsTpmEnabled, ReadPCR of the helper).
HardwareChange ==
    /\ bank256' = ~bank256
    /\ UNCHANGED <<lisp, zedmanager, nv, pcr, savedPCRs, fs, tpms, pcrBank256Status, hist, inflight, ret>>

\* ------------------------------------------------------------ specifications
ArchiveSites ==
    {<<"SealDiskKey", "Glob", 0>>, <<"backupCopiedMeasurementLogs", "Glob", 0>>,
     <<"removeCopiedMeasurementLogs", "Glob", 0>>}
    \cup {<<"backupCopiedMeasurementLogs", c, i>> :
            c \in {"RenameSealSuccess", "RenameUnsealFail", "RenameBack"}, i \in Devs}
    \cup {<<"removeCopiedMeasurementLogs", c, i>> :
            c \in {"RemoveSealSuccess", "RemoveUnsealFail"}, i \in Devs}
    \cup {<<"SealDiskKey", c, i>> : c \in {"ReadFile", "WriteRename"}, i \in Devs}

UnsealCoreSites ==
    {<<"UnsealDiskKey", c, 0>> : c \in {"OpenTPM", "Load", "UnsealWithSession"}}
    \cup {<<"UnsealDiskKey", "NVReadEx", h>> : h \in SealedHdls}

LifeSites ==
    ProbeSites \cup PresenceSites \cup FetchVaultKeySites \cup UnsealCoreSites
    \cup {<<"FetchSealedVaultKey", c, 0>> :
            c \in {"GetRandom.OpenTPM", "GetRandom",
                   "readDiskKey.OpenTPM", "readDiskKey.NVReadEx"}}

LifeCompareSites ==
    {<<"CompareLegacyandSealedKey", c, 0>> :
        c \in {"isSealedKeyPresent.OpenTPM", "isSealedKeyPresent.NVReadEx",
               "readDiskKey.OpenTPM", "readDiskKey.NVReadEx"}}
    \cup UnsealCoreSites

\* One call site for each effect a failure inside SealDiskKey has on the TPM
\* and on the snapshot: before anything changed, after the undefines (the
\* session, flush and Seal calls fail there alike), at each define and write,
\* at the snapshot, and at the copy of the measurement log.
EngineSealSites ==
    {<<"SealDiskKey", c, 0>> : c \in {"OpenTPM", "PolicyPCR", "Glob"}}
    \cup {<<"SealDiskKey", c, h>> : c \in {"NVDefineSpace", "NVWrite"}, h \in SealedHdls}
    \cup {<<"saveDiskKeySealingPCRs", "WriteRename", 0>>}

\* UnsealDiskKey: a failure before the unseal primitive (all return without a
\* change), at the unseal primitive, and at the copy of the measurement log
EngineUnsealSites ==
    {<<"UnsealDiskKey", c, 0>> : c \in {"OpenTPM", "UnsealWithSession", "Glob"}}

\* The seal/unseal engine: callers seal and unseal directly, the calls may
\* fail at the sites above, and the platform extends registers.
Init ==
    /\ InitWith({})
    /\ bank256
    /\ ~nv[TpmDiskKeyHdl].defined
    /\ tpms = <<TRUE>>

Next ==
    \/ DoSealDiskKey(EngineSealSites)
    \/ DoUnsealDiskKey(EngineUnsealSites)
    \/ ExtendPCR(TamperablePCRs)

Spec == Init /\ [][Next]_vars

\* The lifecycle manager over boots: every hardware read that decides the
\* mode or the presence of a key may fail, and so may the unseal.
InitLife ==
    /\ InitWith({"first"})
    /\ tpms = <<TRUE>>

NextLife ==
    \/ DoFetchSealedVaultKey(LifeSites)
    \/ DoFetchVaultKey(FetchVaultKeySites)
    \/ DoCompareLegacyandSealedKey(LifeCompareSites)
    \/ DoWipeOutStaleSealedKeyIfAny(WipeSites)
    \/ ExtendPCR({DiskKeySealingPCRs[1]})
    \/ Reboot

SpecLife == InitLife /\ [][NextLife]_vars

\* Sequences of seals and unseals with the archivist's files: every mapped
\* TPM configuration, every file operation of the archivist may fail, and the
\* history counts the seals.
InitArchive ==
    /\ InitWith({"count"})
    /\ bank256
    /\ ~nv[TpmDiskKeyHdl].defined

NextArchive ==
    \/ DoSealDiskKey(ArchiveSites)
    \/ DoUnsealDiskKey(UnsealSites)
    \/ ExtendPCR({DiskKeySealingPCRs[1]})

SpecArchive == InitArchive /\ [][NextArchive]_vars

\* Seals that stop at any of SealDiskKey's steps, followed by further seals
\* and unseals on a device with one mapped TPM directory.
InitHalfSeal ==
    /\ InitWith({"count"})
    /\ bank256
    /\ ~nv[TpmDiskKeyHdl].defined
    /\ tpms = <<TRUE>>

NextHalfSeal ==
    \/ DoSealDiskKey(SealSites)
    \/ DoUnsealDiskKey({})
    \/ ExtendPCR({DiskKeySealingPCRs[1]})

SpecHalfSeal == InitHalfSeal /\ [][NextHalfSeal]_vars

\* Unseals of a sealed pair whose registers have moved and whose snapshot
\* file may be missing or older than the pair (its write failed).
SnapshotSites == {<<"saveDiskKeySealingPCRs", "WriteRename", 0>>}

NextUnsealError ==
    \/ DoSealDiskKey(SnapshotSites)
    \/ DoUnsealDiskKey({})
    \/ ExtendPCR(TamperablePCRs)

SpecUnsealError == Init /\ [][NextUnsealError]_vars

\* The relationship of the two key representations: callers seal arbitrary
\* keys and store legacy keys, a seal may stop before the public index or
\* lose its seal-success copy, the sealed pair is wiped, registers move.
CompareReachSites ==
    {<<"SealDiskKey", "NVDefineSpace", TpmSealedDiskPubHdl>>, <<"SealDiskKey", "WriteRename", 0>>}

InitCompare ==
    /\ InitWith({})
    /\ bank256
    /\ tpms = <<TRUE>>

NextCompare ==
    \/ DoSealDiskKey(CompareReachSites)
    \/ DoUnsealDiskKey({})
    \/ DoCompareLegacyandSealedKey({})
    \/ DoWipeOutStaleSealedKeyIfAny({})
    \/ DoFetchVaultKey({})
    \/ ExtendPCR({DiskKeySealingPCRs[1]})

SpecCompare == InitCompare /\ [][NextCompare]_vars

\* Threads that call SealDiskKey, WipeOutStaleSealedKeyIfAny and
\* UnsealDiskKey without serializing the calls.
InitThreads ==
    /\ InitWith({})
    /\ bank256
    /\ ~nv[TpmDiskKeyHdl].defined
    /\ tpms = <<TRUE>>

NextThreads ==
    \E t \in Threads :
        \/ \E key \in Keys : Begin(t, "SealDiskKey", key)
        \/ Begin(t, "WipeOutStaleSealedKeyIfAny", NoKey)
        \/ Begin(t, "UnsealDiskKey", NoKey)
        \/ SealDiskKeyStep(t)
        \/ SealDiskKeyFinish(t)
        \/ WipeOutStaleSealedKeyIfAnyStep(t)
        \/ UnsealDiskKeyStep(t)

SpecThreads == InitThreads /\ [][NextThreads]_vars

\* The diagnoser on its own: the snapshot file was saved by this or by another
\* version of the program, whose DiskKeySealingPCRs may hold other indexes
\* (register 5 is not in this version's list), or is missing.
SnapshotRegs == TamperablePCRs \cup {5}
Snapshots == {NoFile} \cup {<<f>> : f \in UNION {[D -> 0..MaxPCRVal] : D \in SUBSET SnapshotRegs}}

InitDiagnose ==
    /\ nv = [h \in NVIndices |-> IF h = TpmPasswdHdl THEN OwnerCredential ELSE Undefined]
    /\ pcr = [i \in SealingPCRSet |-> 0]
    /\ savedPCRs \in Snapshots
    /\ fs = [p \in Paths |-> NoFile]
    /\ tpms = <<TRUE>>
    /\ bank256 = TRUE
    /\ pcrBank256Status = PCRBank256StatusUnknown
    /\ hist = [sealOk |-> FALSE, sealKey |-> NoKey, sealPCRs |-> pcr, okSeals |-> 0,
               sealFailed |-> FALSE, firstKey |-> NoKey, keep |-> {}]
    /\ inflight = NoCalls
    /\ InitZed
    /\ ret = NoRet

NextDiagnose ==
    \/ DoFindMismatchingPCRs
    \/ ExtendPCR(TamperablePCRs)

SpecDiagnose == InitDiagnose /\ [][NextDiagnose]_vars

\* The archivist on its own. The copies of MaxMapped TPMs and their backups
\* exist or not; the content of each existing file is numbered, so that no
\* two files are equal.
MappedPaths == {<<b, i, n>> : b \in Bases, i \in 0..(MaxMapped - 1), n \in 0..2}
Numbered(path) ==
    <<[dev |-> 1 + path[2] + MaxMapped * ((IF path[1] = MeasurementLogSealSuccess THEN 0 ELSE 1)
                                          + 2 * path[3])]>>
Files(X) == [path \in MappedPaths |-> IF path \in X THEN Numbered(path) ELSE NoFile]
LivePaths == {path \in MappedPaths : path[3] = 0}

BackupInputs ==
    {[fn |-> "backupCopiedMeasurementLogs", fs |-> Files(X), devs |-> [d \in 1..n |-> TRUE],
      dstPath |-> ""] :
        X \in SUBSET {path \in MappedPaths : path[3] <= 1}, n \in 1..MaxMapped}

CopyInputs ==
    {[fn |-> "copyMeasurementLog", fs |-> Files(X), devs |-> devs, dstPath |-> dst] :
        X \in {{}, LivePaths}, devs \in UNION {[1..n -> BOOLEAN] : n \in 1..MaxMapped},
        dst \in Bases}

InitArchivist ==
    /\ nv = [h \in NVIndices |-> IF h = TpmPasswdHdl THEN OwnerCredential ELSE Undefined]
    /\ pcr = [i \in SealingPCRSet |-> 0]
    /\ savedPCRs = NoFile
    /\ fs = [path \in Paths |-> NoFile]
    /\ tpms = <<TRUE>>
    /\ bank256 = TRUE
    /\ pcrBank256Status = PCRBank256StatusUnknown
    /\ hist = [sealOk |-> FALSE, sealKey |-> NoKey, sealPCRs |-> pcr, okSeals |-> 0,
               sealFailed |-> FALSE, firstKey |-> NoKey, keep |-> {}]
    /\ inflight = NoCalls
    /\ InitZed
    /\ ret \in {[NoRet EXCEPT !.in = x] : x \in BackupInputs \cup CopyInputs}

NextArchivist ==
    \/ DoBackupCopiedMeasurementLogs
    \/ DoCopyMeasurementLog

SpecArchivist == InitArchivist /\ [][NextArchivist]_vars

\* Boots of a device with a SHA256 bank, some of them cut off by a power
\* failure during the seal.
InitPowerFailure ==
    /\ InitWith({})
    /\ bank256
    /\ tpms = <<TRUE>>

NextPowerFailure ==
    \/ DoFetchSealedVaultKey({})
    \/ DoPowerFailure
    \/ ExtendPCR({DiskKeySealingPCRs[1]})
    \/ Reboot

SpecPowerFailure == InitPowerFailure /\ [][NextPowerFailure]_vars

\* Boots in which the bank probe may fail and the hardware may change after
\* the probe.
InitProbe ==
    /\ InitWith({})
    /\ tpms = <<TRUE>>

NextProbe ==
    \/ DoFetchSealedVaultKey(ProbeSites)
    \/ DoWipeOutStaleSealedKeyIfAny({})
    \/ ExtendPCR({DiskKeySealingPCRs[1]})
    \/ HardwareChange
    \/ Reboot

SpecProbe == InitProbe /\ [][NextProbe]_vars

\* zedrouter: configlet changes and LISP restart notifications in any order
NextLisp ==
    \/ DoUpdateLisp
    \/ DoHandleLispRestart

SpecLisp == Init /\ [][NextLisp]_vars

\* zedmanager's restart handlers called in any order
NextRestart ==
    \/ \E done \in BOOLEAN :
           /\ SignalsLeft
           /\ zedmanager' = [handleConfigRestart(zedmanager, done)
                                EXCEPT !.last = [op |-> "handleConfigRestart", done |-> done]]
           /\ UNCHANGED <<lisp, tpmVars>>
    \/ \E done \in BOOLEAN :
           /\ SignalsLeft
           /\ zedmanager' = [handleVerifierRestarted(zedmanager, done)
                                EXCEPT !.last = [op |-> "handleVerifierRestarted", done |-> done]]
           /\ UNCHANGED <<lisp, tpmVars>>
    \/ \E done \in BOOLEAN :
           /\ SignalsLeft
           /\ zedmanager' = [handleIdentitymgrRestarted(zedmanager, done)
                                EXCEPT !.last = [op |-> "handleIdentitymgrRestarted", done |-> done]]
           /\ UNCHANGED <<lisp, tpmVars>>
    \/ \E done \in BOOLEAN :
           /\ SignalsLeft
           /\ zedmanager' = [handleZedrouterRestarted(zedmanager, done)
                                EXCEPT !.last = [op |-> "handleZedrouterRestarted", done |-> done]]
           /\ UNCHANGED <<lisp, tpmVars>>

SpecRestart == Init /\ [][NextRestart]_vars

\* zedmanager's Run from its first loop on
NextRun ==
    \/ RunInitial
    \/ RunMain

SpecRun == Init /\ [][NextRun]_vars

\* ------------------------------------------------------------ properties
\* an NV index a read would return data from
Readable(nvs, h) == nvs[h].defined /\ nvs[h].data # <<>>

\* the registers that differ from their values at the last successful seal
Changed == {i \in SealingPCRSet : pcr[i] # hist.sealPCRs[i]}

Elems(s) == {s[n] : n \in 1..Len(s)}
Ascending(s) == \A a, b \in 1..Len(s) : a < b => s[a] < s[b]

\* what a fresh probe of this boot answers, or the cached answer
BankSupported ==
    \/ pcrBank256Status = PCRBank256StatusSupported
    \/ pcrBank256Status = PCRBank256StatusUnknown /\ bank256
BankNotSupported ==
    \/ pcrBank256Status = PCRBank256StatusNotSupported
    \/ pcrBank256Status = PCRBank256StatusUnknown /\ ~bank256

\* C1 (round trip): after SealDiskKey(k) succeeded and while the registers of
\* the selection keep the values they had at the seal, UnsealDiskKey returns
\* exactly the bytes of k and no error.
C1_RoundTrip ==
    (hist.sealOk /\ Changed = {}) =>
        \A order \in MapOrders :
            LET r == UnsealDiskKey(World, order, {})
            IN r.err = Nil /\ r.key = hist.sealKey /\ Len(r.key) = vaultKeyLength

\* a key was sealed after the platform had extended a register, that register
\* is unchanged since, and the unseal gives the key back
C1_Witness ==
    /\ hist.sealOk /\ Changed = {}
    /\ \E i \in SealingPCRSet : pcr[i] > 0
    /\ UnsealDiskKey(World, DiskKeySealingPCRs, {}).key = hist.sealKey

\* C2 (tamper detection): after a successful seal, if the registers of a
\* non-empty set M have changed, UnsealDiskKey returns no key and an error
\* whose mismatch list holds exactly the indices of M in ascending order,
\* whatever the order in which the snapshot map is visited.
C2_TamperDetection ==
    (hist.sealOk /\ Changed # {}) =>
        \A order \in MapOrders :
            LET r == UnsealDiskKey(World, order, {})
            IN /\ r.key = NoKey
               /\ r.err # Nil
               /\ r.err.msg = "UnsealWithSession failed"
               /\ r.err.diag = "nil"
               /\ Elems(r.err.mismatch) = Changed
               /\ Len(r.err.mismatch) = Cardinality(Changed)
               /\ Ascending(r.err.mismatch)

\* a failed unseal has been archived while two registers differ from the seal
C2_Witness ==
    /\ hist.sealOk
    /\ Cardinality(Changed) >= 2
    /\ \E i \in Devs : FileExists(fs, TpmEvtLogSavePattern(MeasurementLogUnsealFail, i))

\* the unseal primitive fails; archiving the log may fail with it
UnsealHardwareFaults ==
    {{<<"UnsealDiskKey", "UnsealWithSession", 0>>} \cup G :
        G \in Failures({<<"UnsealDiskKey", "Glob", 0>>}
                       \cup {<<"UnsealDiskKey", c, i>> :
                                c \in {"ReadFile", "WriteRename"}, i \in Devs})}

\* C3 (no false mismatch): when the unseal primitive fails although no
\* register of the selection changed since the seal, the error carries an
\* empty mismatch list: it reports the hardware failure and names no register.
C3_NoFalseMismatch ==
    (hist.sealOk /\ Changed = {}) =>
        \A order \in MapOrders, F \in UnsealHardwareFaults :
            LET r == UnsealDiskKey(World, order, F)
            IN /\ r.key = NoKey
               /\ r.err # Nil
               /\ r.err.cause = "hardware failure"
               /\ r.err.diag = "nil"
               /\ r.err.mismatch = <<>>

\* a failed unseal has been archived although every register has the value
\* of the last successful seal, which was made after an extension
C3_Witness ==
    /\ hist.sealOk /\ Changed = {}
    /\ \E i \in SealingPCRSet : pcr[i] > 0
    /\ \E i \in Devs : FileExists(fs, TpmEvtLogSavePattern(MeasurementLogUnsealFail, i))

\* C4 (legacy migration): with the bank supported, a legacy key k in NV and no
\* sealed key, FetchSealedVaultKey returns k; afterwards the sealed blob
\* unseals to k, the legacy index is unchanged and CompareLegacyandSealedKey
\* answers SealedKeyTypeReused.
C4_LegacyMigration ==
    (/\ BankSupported
     /\ Readable(nv, TpmDiskKeyHdl)
     /\ ~Readable(nv, TpmSealedDiskPrivHdl)) =>
        \A rnd \in 1..NumKeys, order \in MapOrders :
            LET k == nv[TpmDiskKeyHdl].data[1]
                r == FetchSealedVaultKey(World, pcrBank256Status, rnd, order, {})
                u == UnsealDiskKey(r.w, order, {})
                c == CompareLegacyandSealedKey(r.w, order, {})
            IN /\ r.err = Nil /\ r.key = k
               /\ r.sealArg = k
               /\ u.err = Nil /\ u.key = k
               /\ r.w.nv[TpmDiskKeyHdl] = nv[TpmDiskKeyHdl]
               /\ c.type = SealedKeyTypeReused

\* FetchSealedVaultKey has sealed and returned the key of the legacy index
C4_Witness ==
    /\ hist.sealOk
    /\ Readable(nv, TpmDiskKeyHdl)
    /\ hist.sealKey = nv[TpmDiskKeyHdl].data[1]
    /\ hist.firstKey = hist.sealKey
    /\ pcrBank256Status = PCRBank256StatusSupported

\* C5 (fresh install): with the bank supported and neither a sealed nor a
\* legacy key, FetchSealedVaultKey draws 32 bytes from the RNG, seals exactly
\* these bytes and returns them; it creates no legacy blob, and
\* CompareLegacyandSealedKey answers SealedKeyTypeNew.
C5_FreshInstall ==
    (/\ BankSupported
     /\ ~Readable(nv, TpmDiskKeyHdl)
     /\ ~Readable(nv, TpmSealedDiskPrivHdl)) =>
        \A rnd \in 1..NumKeys, order \in MapOrders :
            LET drawn == [n \in 1..32 |-> rnd]
                r == FetchSealedVaultKey(World, pcrBank256Status, rnd, order, {})
                u == UnsealDiskKey(r.w, order, {})
                c == CompareLegacyandSealedKey(r.w, order, {})
            IN /\ Has(r.calls, "GetRandom")
               /\ r.sealArg = drawn
               /\ r.err = Nil /\ r.key = drawn
               /\ u.err = Nil /\ u.key = drawn
               /\ r.w.nv[TpmDiskKeyHdl] = nv[TpmDiskKeyHdl]
               /\ c.type = SealedKeyTypeNew

\* FetchSealedVaultKey has sealed and returned a key on a device that has
\* no legacy index
C5_Witness ==
    /\ hist.sealOk
    /\ ~nv[TpmDiskKeyHdl].defined
    /\ hist.firstKey = hist.sealKey
    /\ hist.firstKey \in Keys
    /\ pcrBank256Status = PCRBank256StatusSupported

\* C6 (idempotent seal): a SealDiskKey(k2) that follows a successful
\* SealDiskKey succeeds too: its NVDefineSpace calls are not rejected, only
\* the two sealed indices exist afterwards, they hold the blobs of the second
\* call, and UnsealDiskKey returns k2.
C6_IdempotentSeal ==
    hist.sealOk =>
        \A k2 \in Keys, order \in MapOrders :
            LET r == SealDiskKey(World, k2, {})
                u == UnsealDiskKey(r.w, order, {})
                seed == FreshSeed(nv)
            IN /\ r.err = Nil
               /\ {h \in NVIndices : r.w.nv[h].defined} \ {TpmDiskKeyHdl, TpmPasswdHdl} = SealedHdls
               /\ seed \notin {nv[h].data[1].seed : h \in SealedHdls}
               /\ r.w.nv[TpmSealedDiskPrivHdl].data = <<[secret |-> k2, seed |-> seed]>>
               /\ r.w.nv[TpmSealedDiskPubHdl].data =
                      <<[authPolicy |-> PolicyDigest(pcr), seed |-> seed]>>
               /\ r.w.nv[TpmDiskKeyHdl] = nv[TpmDiskKeyHdl]
               /\ u.err = Nil /\ u.key = k2

\* two seals have succeeded, none has failed, and NV holds the blobs of the last
C6_Witness ==
    /\ hist.sealOk
    /\ hist.okSeals >= 2 /\ ~hist.sealFailed
    /\ nv[TpmSealedDiskPrivHdl].data[1].secret = hist.sealKey
    /\ nv[TpmSealedDiskPubHdl].data[1].seed = nv[TpmSealedDiskPrivHdl].data[1].seed

\* the device indices copyMeasurementLog enumerates
EnumeratedDevs == 0..(Len(getMeasurementLogFiles(tpms, {}, "SealDiskKey").paths) - 1)

Backups(base, i) == {p \in Paths : p[1] = base /\ p[2] = i /\ p[3] >= 1 /\ FileExists(fs, p)}

\* C7 (bounded log history): after three or more successful seals, with
\* failed unseals in between, every enumerated device index has its current
\* seal-success copy and at most one "-backup" file of each role.
C7_BoundedLogHistory ==
    (hist.okSeals >= 3 /\ ~hist.sealFailed) =>
        \A i \in EnumeratedDevs :
            /\ FileExists(fs, TpmEvtLogSavePattern(MeasurementLogSealSuccess, i))
            /\ \A base \in Bases : Cardinality(Backups(base, i)) <= 1

\* three seals succeeded, a pair of logs has been backed up and a later
\* unseal failure is archived next to the current seal-success copy
C7_Witness ==
    /\ hist.okSeals >= 3 /\ ~hist.sealFailed
    /\ \E i \in EnumeratedDevs :
        /\ Backups(MeasurementLogSealSuccess, i) # {}
        /\ Backups(MeasurementLogUnsealFail, i) # {}
        /\ FileExists(fs, TpmEvtLogSavePattern(MeasurementLogUnsealFail, i))

\* the failures of a run whose probe and sealed-key check read the hardware
\* without failing
AfterPresenceFaults ==
    Failures(UnsealSites
             \cup {<<"isLegacyKeyPresent", c, 0>> :
                      c \in {"readDiskKey.OpenTPM", "readDiskKey.NVReadEx"}})

\* C8 (no fallback once sealed): with the bank supported and a sealed key
\* found, FetchSealedVaultKey calls UnsealDiskKey and nothing else; when the
\* unseal fails it returns the error and no key, draws no new key, and leaves
\* every NV index as it was, with or without a legacy key.
C8_NoFallbackOnceSealed ==
    (BankSupported /\ Readable(nv, TpmSealedDiskPrivHdl)) =>
        \A rnd \in 1..NumKeys, order \in MapOrders, F \in AfterPresenceFaults :
            LET r == FetchSealedVaultKey(World, pcrBank256Status, rnd, order, F)
                u == UnsealDiskKey(World, order, F)
            IN /\ r.calls = <<"UnsealDiskKey">>
               /\ r.sealArg = NoKey
               /\ r.key = u.key /\ r.err = u.err
               /\ r.err # Nil => r.key = NoKey
               /\ r.w.nv = nv

\* a sealed key was fetched, the registers changed, and a failed unseal is
\* archived while the legacy key is still readable and the sealed one in place
C8_Witness ==
    /\ pcrBank256Status = PCRBank256StatusSupported
    /\ hist.sealOk /\ Changed # {}
    /\ hist.firstKey # NoKey
    /\ Readable(nv, TpmDiskKeyHdl)
    /\ Readable(nv, TpmSealedDiskPrivHdl)
    /\ \E i \in Devs : FileExists(fs, TpmEvtLogSavePattern(MeasurementLogUnsealFail, i))

\* C9 (legacy-only mode): when the bank is not supported FetchSealedVaultKey
\* behaves as FetchVaultKey: it returns the legacy key if there is one, else
\* it draws 32 bytes, writes them to the legacy index and returns them; it
\* never touches the sealed indices.
C9_LegacyOnlyMode ==
    BankNotSupported =>
        \A rnd \in 1..NumKeys, order \in MapOrders, F \in Failures(FetchVaultKeySites) :
            LET r == FetchSealedVaultKey(World, pcrBank256Status, rnd, order, F)
                drawn == [n \in 1..32 |-> rnd]
            IN /\ \A h \in SealedHdls : r.w.nv[h] = nv[h]
               /\ r.sealArg = NoKey
               /\ ~Has(r.calls, "SealDiskKey") /\ ~Has(r.calls, "UnsealDiskKey")
               /\ r.calls[1] = "FetchVaultKey"
               /\ F = {} =>
                    IF Readable(nv, TpmDiskKeyHdl)
                    THEN /\ r.err = Nil /\ r.key = nv[TpmDiskKeyHdl].data[1]
                         /\ r.w = World
                    ELSE /\ r.err = Nil /\ r.key = drawn
                         /\ r.w.nv[TpmDiskKeyHdl] = [defined |-> TRUE, data |-> <<drawn>>]

\* legacy-only mode has created the legacy key while sealed indices of an
\* earlier boot are in NV
C9_Witness ==
    /\ pcrBank256Status = PCRBank256StatusNotSupported
    /\ Readable(nv, TpmDiskKeyHdl)
    /\ hist.firstKey = nv[TpmDiskKeyHdl].data[1]
    /\ Readable(nv, TpmSealedDiskPrivHdl)

\* C10 (key stability): once FetchSealedVaultKey has returned a key, every
\* later call (no wipe in between) that succeeds returns the same bytes, and
\* no later call seals or draws a key, also when one hardware read that
\* decides the mode or the presence of a key fails transiently in that call.
C10_KeyStability ==
    hist.firstKey # NoKey =>
        \A rnd \in 1..NumKeys, order \in MapOrders, F \in Failures(ProbeSites \cup PresenceSites) :
            LET r == FetchSealedVaultKey(World, pcrBank256Status, rnd, order, F)
            IN /\ r.err = Nil => r.key = hist.firstKey
               /\ ~Has(r.calls, "SealDiskKey") /\ ~Has(r.calls, "GetRandom")

\* C11 (one secret): whenever the legacy index and the sealed pair are both
\* in NV, the secret of the sealed pair equals the bytes of the legacy index,
\* after any sequence of lifecycle calls and whatever the probes answered.
C11_SameSecretWhenBoth ==
    (/\ Readable(nv, TpmDiskKeyHdl)
     /\ Readable(nv, TpmSealedDiskPrivHdl)
     /\ Readable(nv, TpmSealedDiskPubHdl)) =>
        nv[TpmSealedDiskPrivHdl].data[1].secret = nv[TpmDiskKeyHdl].data[1]

\* C12 (rollback safety net): once a legacy key is stored, no call of the
\* package changes, undefines or replaces the legacy index, also when a read
\* of the legacy index fails transiently in that call.
C12_LegacyNeverChanged ==
    Readable(nv, TpmDiskKeyHdl) =>
        \A rnd \in 1..NumKeys, order \in MapOrders, key \in Keys :
            /\ \A F \in Failures(FetchSealedVaultKeySites) :
                 FetchSealedVaultKey(World, pcrBank256Status, rnd, order, F).w.nv[TpmDiskKeyHdl]
                     = nv[TpmDiskKeyHdl]
            /\ \A F \in Failures(FetchVaultKeySites) :
                 FetchVaultKey(World, rnd, F).w.nv[TpmDiskKeyHdl] = nv[TpmDiskKeyHdl]
            /\ \A F \in Failures(SealSites) :
                 SealDiskKey(World, key, F).w.nv[TpmDiskKeyHdl] = nv[TpmDiskKeyHdl]
            /\ \A F \in Failures(UnsealSites) :
                 UnsealDiskKey(World, order, F).w.nv[TpmDiskKeyHdl] = nv[TpmDiskKeyHdl]
            /\ \A F \in Failures(CompareSites) :
                 CompareLegacyandSealedKey(World, order, F).w.nv[TpmDiskKeyHdl]
                     = nv[TpmDiskKeyHdl]
            /\ \A F \in Failures(WipeSites) :
                 WipeOutStaleSealedKeyIfAny(World, F).w.nv[TpmDiskKeyHdl] = nv[TpmDiskKeyHdl]

\* C13 (wipe): whenever the hardware session can be opened,
\* WipeOutStaleSealedKeyIfAny returns no error whether or not the sealed
\* indices existed, afterwards neither sealed index is defined, the legacy
\* index is unchanged, and a second call gives the same result and state.
C13_WipeRemovesSealedPair ==
    \A F \in Failures(WipeSites) :
        OpenTPM(F, <<"WipeOutStaleSealedKeyIfAny", "OpenTPM", 0>>) =>
            LET r == WipeOutStaleSealedKeyIfAny(World, F)
                again == WipeOutStaleSealedKeyIfAny(r.w, {})
            IN /\ r.err = Nil
               /\ \A h \in SealedHdls : ~r.w.nv[h].defined
               /\ ~isSealedKeyPresent(r.w.nv, {}, "FetchSealedVaultKey")
               /\ r.w.nv[TpmDiskKeyHdl] = nv[TpmDiskKeyHdl]
               /\ again.err = r.err
               /\ again.w = r.w

\* C14 (seal guarantee): when SealDiskKey succeeds the sealed pair in NV is
\* the one this call produced and nothing of the prior generation remains;
\* when it returns an error, from whatever step, neither sealed index is left
\* defined with its final size.
C14_SealAllOrNothing ==
    \A key \in Keys, F \in Failures(SealSites) :
        LET r == SealDiskKey(World, key, F)
        IN IF r.err = Nil
           THEN /\ \A h \in SealedHdls : Readable(r.w.nv, h)
                /\ r.w.nv[TpmSealedDiskPrivHdl].data[1].secret = key
                /\ r.w.nv[TpmSealedDiskPrivHdl].data[1].seed
                       = r.w.nv[TpmSealedDiskPubHdl].data[1].seed
                /\ r.w.nv[TpmSealedDiskPrivHdl].data[1].seed = FreshSeed(nv)
           ELSE \A h \in SealedHdls : ~r.w.nv[h].defined

\* C15 (a half-completed seal never blocks a new one): after a SealDiskKey
\* that failed or was interrupted at any step, a following SealDiskKey whose
\* hardware operations succeed completes, and its blobs unseal to its secret.
C15_SealAfterFailedSeal ==
    hist.sealFailed =>
        \A k2 \in Keys :
            LET s == SealDiskKey(World, k2, {})
                u == UnsealDiskKey(s.w, DiskKeySealingPCRs, {})
            IN /\ s.err = Nil
               /\ \A h \in SealedHdls : Readable(s.w.nv, h)
               /\ s.w.nv[TpmSealedDiskPrivHdl].data[1].secret = k2
               /\ u.err = Nil /\ u.key = k2

\* a seal has stopped between the two indices (the private index is defined,
\* the public one is not) and the next seal completes from there
C15_Witness ==
    /\ hist.sealFailed
    /\ nv[TpmSealedDiskPrivHdl].defined /\ ~nv[TpmSealedDiskPubHdl].defined
    /\ \E k2 \in Keys :
        LET s == SealDiskKey(World, k2, {})
        IN s.err = Nil /\ UnsealDiskKey(s.w, DiskKeySealingPCRs, {}).key = k2

\* C16 (archival is auxiliary): when the steps that handle the secret succeed
\* and only the rotation, removal or copy of the measurement logs fails,
\* SealDiskKey reports success and FetchSealedVaultKey, which calls it,
\* returns the key; a failing log copy never turns a successful UnsealDiskKey
\* into a failure.
C16_ArchivalNeverFailsTheSeal ==
    \A F \in Failures(ArchiveSites) :
        /\ \A key \in Keys : SealDiskKey(World, key, F).err = Nil
        /\ \A rnd \in 1..NumKeys :
             LET r == FetchSealedVaultKey(World, pcrBank256Status, rnd, DiskKeySealingPCRs, F)
             IN Has(r.calls, "SealDiskKey") => (r.err = Nil /\ r.key = r.sealArg)
        /\ \A G \in Failures({<<"UnsealDiskKey", c, i>> : c \in {"Glob", "ReadFile", "WriteRename"},
                                                         i \in {0} \cup Devs}) :
             UnsealDiskKey(World, DiskKeySealingPCRs, {}).err = Nil
                 => UnsealDiskKey(World, DiskKeySealingPCRs, G).err = Nil

\* the hardware reads by which the two fetch operations learn what NV holds
PresenceReadSites ==
    PresenceSites
    \cup {<<"FetchVaultKey", c, 0>> : c \in {"readDiskKey.OpenTPM", "readDiskKey.NVReadEx"}}

\* C17 (transient hardware errors are surfaced): when a hardware access made
\* for FetchSealedVaultKey or FetchVaultKey (opening the device, the NV read
\* that probes the sealed key, the NV read of the legacy key) fails, the call
\* returns an error, generates no key, seals nothing and writes nothing to
\* NV: the failure is never taken as "key absent".
C17_ReadFailureIsSurfaced ==
    \A p \in PresenceReadSites, rnd \in 1..NumKeys :
        /\ LET r == FetchSealedVaultKey(World, pcrBank256Status, rnd, DiskKeySealingPCRs, {p})
           IN (p[1] # "FetchVaultKey" \/ Has(r.calls, "FetchVaultKey")) =>
                 /\ r.err # Nil /\ r.key = NoKey
                 /\ ~Has(r.calls, "GetRandom") /\ ~Has(r.calls, "SealDiskKey")
                 /\ r.w.nv = nv
        /\ LET r == FetchVaultKey(World, rnd, {p})
           IN p[1] = "FetchVaultKey" =>
                 /\ r.err # Nil /\ r.key = NoKey
                 /\ ~Has(r.calls, "GetRandom")
                 /\ r.w.nv = nv

\* the calls of ev that take a resource and the call that gives it back
Taking == [OpenTPM |-> "Close", Acquire |-> "FlushContext"]

\* every resource taken in ev is given back later in ev
Released(ev) ==
    \A i \in DOMAIN ev :
        ev[i][1] \in DOMAIN Taking =>
            \E j \in (i + 1)..Len(ev) : ev[j] = <<Taking[ev[i][1]], ev[i][2]>>

\* device sessions open after the first n calls of ev
OpenSessions(ev, n) ==
    Cardinality({i \in 1..n : ev[i][1] = "OpenTPM"}) - Cardinality({i \in 1..n : ev[i][1] = "Close"})

\* the resource calls of each operation of the package under one failure
SealRuns == {SealDiskKeyEvents(World, key, F) : key \in Keys, F \in Failures(SealSites)}
UnsealRuns == {UnsealDiskKeyEvents(World, o, F) : o \in MapOrders, F \in Failures(UnsealSites)}
FetchVaultKeyRuns ==
    {FetchVaultKeyEvents(World, rnd, F) : rnd \in 1..NumKeys, F \in Failures(FetchVaultKeySites)}
CompareRuns ==
    {CompareLegacyandSealedKeyEvents(World, o, F) : o \in MapOrders, F \in Failures(CompareSites)}
WipeRuns == {WipeOutStaleSealedKeyIfAnyEvents(F) : F \in Failures(WipeSites)}

C19_ExclusiveSession ==
    \A ev \in SealRuns \cup UnsealRuns \cup FetchVaultKeyRuns \cup CompareRuns \cup WipeRuns :
        \A n \in 0..Len(ev) : OpenSessions(ev, n) <= 1

\* the call sites of the log copy and of the diagnoser inside UnsealDiskKey
UnsealCopySites ==
    {<<"UnsealDiskKey", "Glob", 0>>}
    \cup {<<"UnsealDiskKey", c, i>> : c \in {"ReadFile", "WriteRename"}, i \in Devs}
DiagSites ==
    {<<"findMismatchingPCRs", c, 0>> :
        c \in {"Open", "Decode", "readDiskKeySealingPCRs.OpenTPM",
               "readDiskKeySealingPCRs.ReadPCR"}}

\* the sealed pair can be read and loaded, so UnsealDiskKey reaches the primitive
PrimitiveReached ==
    /\ Readable(nv, TpmSealedDiskPrivHdl) /\ Readable(nv, TpmSealedDiskPubHdl)
    /\ Load(nv[TpmSealedDiskPubHdl].data[1], nv[TpmSealedDiskPrivHdl].data[1])

PolicyMismatch == PolicyDigest(pcr) # nv[TpmSealedDiskPubHdl].data[1].authPolicy

\* C20 (composite unseal error): when the unseal primitive fails,
\* UnsealDiskKey attempts the unseal-failure log copy, runs the mismatch
\* diagnosis also when the copy failed, and returns no key and one error that
\* carries the hardware error, the outcome of the copy, and either the sorted
\* list of mismatching registers or the diagnoser's own error.
C20_CompositeUnsealError ==
    PrimitiveReached =>
        \A order \in MapOrders,
           U \in Failures({<<"UnsealDiskKey", "UnsealWithSession", 0>>}),
           C \in Failures(UnsealCopySites),
           D \in Failures(DiagSites) :
            (U # {} \/ PolicyMismatch) =>
                LET r == UnsealDiskKey(World, order, U \cup C \cup D)
                    copyFails == \/ <<"UnsealDiskKey", "Glob", 0>> \in C
                                 \/ \E p \in C : p[2] # "Glob" /\ p[3] \in EnumeratedDevs
                    diagFails == D # {} \/ savedPCRs = NoFile
                IN /\ r.key = NoKey
                   /\ r.err.msg = "UnsealWithSession failed"
                   /\ r.err.cause = IF U # {} THEN "hardware failure" ELSE "policy check failed"
                   /\ r.err.evtLogStat =
                          IF copyFails THEN "copying (failed unseal) TPM measurement log failed"
                          ELSE "copied (failed unseal) TPM measurement log"
                   /\ ~copyFails =>
                          \A i \in EnumeratedDevs :
                              FileExists(r.w.fs, TpmEvtLogSavePattern(MeasurementLogUnsealFail, i))
                   /\ IF diagFails
                      THEN r.err.diag # "nil" /\ r.err.mismatch = <<>>
                      ELSE /\ r.err.diag = "nil"
                           /\ Ascending(r.err.mismatch)
                           /\ Elems(r.err.mismatch) =
                                  {i \in SealingPCRSet : savedPCRs[1][i] # pcr[i]}

\* two registers changed after the seal; the unseal whose log copy fails
\* still names both, in ascending order, next to the failed copy
C20_Witness ==
    /\ PrimitiveReached /\ PolicyMismatch
    /\ LET r == UnsealDiskKey(World, DiskKeySealingPCRs, {<<"UnsealDiskKey", "Glob", 0>>})
       IN /\ r.err.evtLogStat = "copying (failed unseal) TPM measurement log failed"
          /\ Len(r.err.mismatch) = 2
          /\ r.err.diag = "nil"

\* C21 (relationship Unknown): whenever the sealed blob exists and
\* UnsealDiskKey fails in the current state, CompareLegacyandSealedKey
\* returns Unknown, whether or not a legacy key is present.
C21_UnknownWhenUnsealFails ==
    \A order \in MapOrders :
        (/\ Readable(nv, TpmSealedDiskPrivHdl)
         /\ UnsealDiskKey(World, order, {}).err # Nil) =>
            CompareLegacyandSealedKey(World, order, {}).type = SealedKeyTypeUnknown

\* the current unseal-failure copies, one per device index
CurrentUnsealFailCopies == {TpmEvtLogSavePattern(MeasurementLogUnsealFail, i) : i \in Devs}

\* world w2 differs from the current one at most in the current unseal-failure copies
OnlyUnsealFailCopyWritten(w2) ==
    /\ w2.savedPCRs = savedPCRs
    /\ \A p \in Paths \ CurrentUnsealFailCopies : w2.fs[p] = fs[p]

\* C22 as stated (snapshot and log copies are written only by a successful
\* seal): UnsealDiskKey and CompareLegacyandSealedKey leave the snapshot file
\* and every measurement-log copy unchanged, on success and on failure.
C22_UnsealLeavesAllFiles ==
    \A order \in MapOrders :
        /\ \A F \in Failures(UnsealSites) :
             LET r == UnsealDiskKey(World, order, F)
             IN r.w.savedPCRs = savedPCRs /\ r.w.fs = fs
        /\ \A F \in Failures(CompareSites) :
             LET r == CompareLegacyandSealedKey(World, order, F)
             IN r.w.savedPCRs = savedPCRs /\ r.w.fs = fs

\* C22 (amended): UnsealDiskKey, with the diagnoser it runs, and
\* CompareLegacyandSealedKey never change the snapshot file, a seal-success
\* copy or a backup; the one file they write is the current unseal-failure
\* copy, written for every enumerated device when the unseal primitive fails
\* and the copy succeeds; an unseal that succeeds changes no file.
C22_UnsealWritesOnlyUnsealFailCopy ==
    \A order \in MapOrders :
        /\ \A F \in Failures(UnsealSites) :
             LET r == UnsealDiskKey(World, order, F)
             IN /\ OnlyUnsealFailCopyWritten(r.w)
                /\ r.err = Nil => r.w.fs = fs
        /\ \A F \in Failures(CompareSites) :
             LET r == CompareLegacyandSealedKey(World, order, F)
             IN /\ OnlyUnsealFailCopyWritten(r.w)
                /\ r.type # SealedKeyTypeUnknown => r.w.fs = fs
        /\ (PrimitiveReached /\ PolicyMismatch) =>
             \A i \in EnumeratedDevs :
                 FileExists(UnsealDiskKey(World, order, {}).w.fs,
                            TpmEvtLogSavePattern(MeasurementLogUnsealFail, i))

\* a legacy key and a sealed pair exist, the registers have moved, no
\* unseal-failure copy exists yet: the comparison writes it and nothing else
C22_Witness ==
    /\ Readable(nv, TpmDiskKeyHdl) /\ PrimitiveReached /\ PolicyMismatch
    /\ savedPCRs # NoFile
    /\ ~FileExists(fs, TpmEvtLogSavePattern(MeasurementLogUnsealFail, 0))
    /\ LET r == CompareLegacyandSealedKey(World, DiskKeySealingPCRs, {})
       IN /\ FileExists(r.w.fs, TpmEvtLogSavePattern(MeasurementLogUnsealFail, 0))
          /\ OnlyUnsealFailCopyWritten(r.w)

\* the sealed pair stored in the NV indices is complete
PairStored == /\ Readable(nv, TpmSealedDiskPrivHdl)
              /\ Readable(nv, TpmSealedDiskPubHdl)
\* the two stored blobs were written by different SealDiskKey calls
MixedPair == /\ PairStored
             /\ nv[TpmSealedDiskPrivHdl].data[1].seed # nv[TpmSealedDiskPubHdl].data[1].seed

\* C23: as long as no call has begun while another call was running, a
\* complete stored pair has both blobs from one single SealDiskKey call and
\* no call has failed at NVDefineSpace; with unserialized calls a state is reachable (C23_Witness) where a call
\* has failed at NVDefineSpace and the stored blobs come from different calls.
C23_SerializedPairFromOneSeal ==
    ~inflight.overlapped => /\ ~MixedPair
                            /\ "NVDefineSpace" \notin inflight.failedAt

C23_Witness ==
    /\ inflight.overlapped
    /\ MixedPair
    /\ "NVDefineSpace" \in inflight.failedAt

\* C24: findMismatchingPCRs fails and returns no list when the snapshot file
\* cannot be opened or decoded and when a saved index is missing from the
\* live reading; when the registers can be read and every saved index is in
\* the reading it returns, ascending, exactly the saved indexes whose saved
\* value differs from the live value.
C24_ExactMismatchList ==
    ret.op = "findMismatchingPCRs" =>
        LET file == ret.in.file
            live == [i \in SealingPCRSet |-> ret.in.live[i]]
            unreadable == \/ file = NoFile
                          \/ <<"findMismatchingPCRs", "Open", 0>> \in ret.F
                          \/ <<"findMismatchingPCRs", "Decode", 0>> \in ret.F
            noReading == ret.F \cap FindMismatchSites # {} /\ ~unreadable
        IN IF unreadable \/ (~noReading /\ \E i \in DOMAIN file[1] : i \notin DOMAIN live)
           THEN ~ret.out.ok /\ ret.out.mismatch = <<>> /\ ret.out.err # "nil"
           ELSE IF noReading
           THEN ~ret.out.ok /\ ret.out.mismatch = <<>>
           ELSE /\ ret.out.ok
                /\ ret.out.err = "nil"
                /\ Elems(ret.out.mismatch) = {i \in DOMAIN file[1] : file[1][i] # live[i]}
                /\ Ascending(ret.out.mismatch)

C24_Witness ==
    /\ ret.op = "findMismatchingPCRs"
    /\ ret.out.ok
    /\ Len(ret.out.mismatch) >= 2

\* the read of index h made by step of CompareLegacyandSealedKey succeeds under F
CompareReads(h, step, F) ==
    /\ Readable(nv, h)
    /\ <<"CompareLegacyandSealedKey", step \o ".OpenTPM", 0>> \notin F
    /\ <<"CompareLegacyandSealedKey", step \o ".NVReadEx", 0>> \notin F

C26_CompareIsReadOnly ==
    \A order \in MapOrders :
        /\ \A F \in Failures(CompareSites) :
              CompareLegacyandSealedKey(World, order, F).w.nv = nv
        /\ LET first == CompareLegacyandSealedKey(World, order, {})
           IN \A again \in MapOrders :
                 CompareLegacyandSealedKey(first.w, again, {}).type = first.type

\* a comparison that writes a file (the unseal-failure copy) and answers Unknown
C26_Witness ==
    /\ nv[TpmPasswdHdl] = OwnerCredential
    /\ \E order \in MapOrders :
          LET first == CompareLegacyandSealedKey(World, order, {})
          IN /\ first.type = SealedKeyTypeUnknown
             /\ first.w # World
             /\ CompareLegacyandSealedKey(first.w, order, {}).type = SealedKeyTypeUnknown

\* the four files of device index i
IndexPaths(i) == {<<b, i, n>> : b \in Bases, n \in 0..1}
\* the indexes whose two copies exist in file system f
BothCopies(f, i) == /\ FileExists(f, TpmEvtLogSavePattern(MeasurementLogSealSuccess, i))
                    /\ FileExists(f, TpmEvtLogSavePattern(MeasurementLogUnsealFail, i))

\* C27: backupCopiedMeasurementLogs, once the TPMs are counted, treats each
\* index on its own. Without both copies nothing of the index is renamed.
\* With both copies: if the first rename fails nothing of the index changes;
\* if the second rename fails the seal-success copy is back under its name
\* and the unseal-failure copy and its backup are untouched; otherwise both
\* copies are stored under their '-backup' names. The indexes with a failed
\* rename are the failed ones, every other index is processed, and an error
\* is returned iff an index failed.
C27_BackupRotation ==
    (ret.op = "backupCopiedMeasurementLogs"
     /\ <<"backupCopiedMeasurementLogs", "Glob", 0>> \notin ret.F) =>
        LET f0 == ret.in.fs
            f1 == ret.out.fs
            counted == Len(ret.in.devs)
            first(i) == <<"backupCopiedMeasurementLogs", "RenameSealSuccess", i>> \in ret.F
            second(i) == <<"backupCopiedMeasurementLogs", "RenameUnsealFail", i>> \in ret.F
            failed == {i \in 0..(counted - 1) : BothCopies(f0, i) /\ (first(i) \/ second(i))}
            ss(i) == TpmEvtLogSavePattern(MeasurementLogSealSuccess, i)
            uf(i) == TpmEvtLogSavePattern(MeasurementLogUnsealFail, i)
        IN /\ \A i \in 0..(counted - 1) :
                IF ~BothCopies(f0, i) \/ first(i)
                THEN \A path \in IndexPaths(i) : f1[path] = f0[path]
                ELSE IF second(i)
                THEN /\ f1[ss(i)] = f0[ss(i)]
                     /\ f1[uf(i)] = f0[uf(i)]
                     /\ f1[TpmEvtLogCollectPattern(uf(i))] = f0[TpmEvtLogCollectPattern(uf(i))]
                ELSE /\ f1[TpmEvtLogCollectPattern(ss(i))] = f0[ss(i)]
                     /\ f1[TpmEvtLogCollectPattern(uf(i))] = f0[uf(i)]
                     /\ f1[ss(i)] = NoFile
                     /\ f1[uf(i)] = NoFile
           /\ \A path \in MappedPaths : path[2] >= counted => f1[path] = f0[path]
           /\ ret.out.ok <=> failed = {}
           /\ ret.out.left = Cardinality(failed)

\* the second rename of index 0 failed and was undone, index 1 was rotated
C27_Witness ==
    /\ ret.op = "backupCopiedMeasurementLogs"
    /\ Len(ret.in.devs) >= 2
    /\ BothCopies(ret.in.fs, 0) /\ BothCopies(ret.in.fs, 1)
    /\ <<"backupCopiedMeasurementLogs", "RenameUnsealFail", 0>> \in ret.F
    /\ BothCopies(ret.out.fs, 0)
    /\ ~BothCopies(ret.out.fs, 1)
    /\ ~ret.out.ok

\* C28: copyMeasurementLog, once the log files are enumerated, attempts each
\* of them: a file whose read and write succeed is stored at the name of its
\* position, whatever happened to the other files; a file whose read or write
\* fails leaves that name as it was; an error is returned exactly when a
\* file was not copied, and the count is the number of files not copied.
C28_CopyEveryLog ==
    (ret.op = "copyMeasurementLog" /\ <<"copyMeasurementLog", "Glob", 0>> \notin ret.F) =>
        LET f0 == ret.in.fs
            f1 == ret.out.fs
            paths == SelectSeq([d \in 1..Len(ret.in.devs) |-> d], LAMBDA d : ret.in.devs[d])
            notCopied == {n \in 1..Len(paths) :
                            \/ <<"copyMeasurementLog", "ReadFile", n - 1>> \in ret.F
                            \/ <<"copyMeasurementLog", "WriteRename", n - 1>> \in ret.F}
            copyPath(n) == TpmEvtLogSavePattern(ret.in.dstPath, n - 1)
        IN /\ \A n \in 1..Len(paths) :
                f1[copyPath(n)] = IF n \in notCopied THEN f0[copyPath(n)]
                                  ELSE <<[dev |-> paths[n]]>>
           /\ \A path \in MappedPaths \ {copyPath(n) : n \in 1..Len(paths)} :
                f1[path] = f0[path]
           /\ ret.out.ok <=> notCopied = {}
           /\ ret.out.left = Cardinality(notCopied)

\* the first of two log files could not be read, the second was copied
C28_Witness ==
    /\ ret.op = "copyMeasurementLog"
    /\ ret.in.devs = <<TRUE, TRUE>>
    /\ ret.in.fs = Files({})
    /\ <<"copyMeasurementLog", "ReadFile", 0>> \in ret.F
    /\ FileExists(ret.out.fs, TpmEvtLogSavePattern(ret.in.dstPath, 1))
    /\ ~ret.out.ok
    /\ ret.out.left = 1

\* the calls of SealDiskKey up to the write of the public blob
UpToNVWrites ==
    {<<"SealDiskKey", c, 0>> : c \in {"OpenTPM", "StartAuthSession", "PolicyPCR",
                                      "PolicyGetDigest", "FlushContext", "Seal"}}
    \cup {<<"SealDiskKey", c, h>> : c \in {"NVUndefineSpace", "NVDefineSpace", "NVWrite"},
                                    h \in SealedHdls}

\* the two blobs of the SealDiskKey(key) call made in the current state are stored in nvs
BlobsWritten(nvs, key) ==
    /\ Readable(nvs, TpmSealedDiskPrivHdl)
    /\ Readable(nvs, TpmSealedDiskPubHdl)
    /\ nvs[TpmSealedDiskPrivHdl].data = <<[secret |-> key, seed |-> FreshSeed(nv)]>>
    /\ nvs[TpmSealedDiskPubHdl].data = <<[authPolicy |-> PolicyDigest(pcr), seed |-> FreshSeed(nv)]>>

\* C29: a SealDiskKey call, wherever it fails, has changed the snapshot file
\* only if both of its blobs are written, and has changed a log copy or a
\* backup only if, besides, the snapshot of the current registers is saved;
\* a call that fails at or before the NV writes leaves the snapshot file and
\* all log copies and backups as they were.
C29_SnapshotAfterBlobsLogsAfterSnapshot ==
    \A key \in Keys, F \in Failures(SealSites) :
        LET r == SealDiskKey(World, key, F)
        IN /\ r.w.savedPCRs # savedPCRs => BlobsWritten(r.w.nv, key)
           /\ r.w.fs # fs => /\ BlobsWritten(r.w.nv, key)
                             /\ r.w.savedPCRs = <<[v \in SealingPCRSet |-> pcr[v]]>>
           /\ (r.err # Nil /\ F \cap UpToNVWrites # {}) =>
                  r.w.savedPCRs = savedPCRs /\ r.w.fs = fs

\* an old snapshot and both log copies exist, the registers have changed: a
\* seal that fails at the write of the public blob changes neither, one that
\* succeeds replaces the snapshot and rotates the copies
C29_Witness ==
    /\ savedPCRs # NoFile
    /\ savedPCRs # <<[v \in SealingPCRSet |-> pcr[v]]>>
    /\ BothCopies(fs, 0)
    /\ \E key \in Keys :
          LET failing == SealDiskKey(World, key,
                                     {<<"SealDiskKey", "NVWrite", TpmSealedDiskPubHdl>>})
              r == SealDiskKey(World, key, {})
          IN /\ failing.err # Nil
             /\ failing.w.nv # nv
             /\ failing.w.savedPCRs = savedPCRs /\ failing.w.fs = fs
             /\ r.err = Nil
             /\ r.w.savedPCRs # savedPCRs /\ r.w.fs # fs

\* C30: when FetchSealedVaultKey finds no sealed key and the power fails
\* after any number of steps of its SealDiskKey call, FetchSealedVaultKey of
\* the next boot returns a key without error: the legacy key if there is one,
\* else a generated key.
C30_PowerFailureRecovery ==
    (bank256 /\ ~isSealedKeyPresent(nv, {}, "FetchSealedVaultKey")) =>
        \A k \in CutPoints, rnd \in 1..NumKeys, again \in 1..NumKeys, order \in MapOrders :
            LET legacy == isLegacyKeyPresent(nv, {})
                key == IF legacy THEN readDiskKey(nv, {}, "FetchSealedVaultKey").key
                       ELSE GetRandom(vaultKeyLength, rnd, {}, "FetchSealedVaultKey").key
                cut == SealDiskKeyCutOff(World, key, k)
                r == FetchSealedVaultKey(cut, PCRBank256StatusUnknown, again, order, {})
            IN /\ r.err = Nil
               /\ IF legacy THEN r.key = key ELSE r.key \in Keys

\* the calls of UnsealDiskKey between the reads of the blobs and the primitive
LoadAndSessionSites ==
    {<<"UnsealDiskKey", c, 0>> : c \in {"Load", "StartAuthSession", "PolicyPCR",
                                        "PolicyGetDigest"}}
\* an error that carries the outcome of the log copy and of the diagnosis
Composite(err) == err.msg = "UnsealWithSession failed" /\ err.evtLogStat # "" /\ err.diag # ""
\* an error that carries neither
Plain(err) == err # Nil /\ err.evtLogStat = "" /\ err.diag = "" /\ err.mismatch = <<>>

\* C31 as stated: every hardware failure of UnsealDiskKey after the blobs
\* were read (Load, the policy session, the unseal primitive) writes the
\* unseal-failure copy, runs the diagnosis and is returned as the composite
\* error; a failing read of a blob is returned without diagnosis.
C31_EveryFailureAfterReadsIsDiagnosed ==
    PrimitiveReached =>
        \A order \in MapOrders :
            /\ \A F \in Failures(LoadAndSessionSites
                                 \cup {<<"UnsealDiskKey", "UnsealWithSession", 0>>}) \ {{}} :
                  Composite(UnsealDiskKey(World, order, F).err)
            /\ \A h \in SealedHdls :
                  Plain(UnsealDiskKey(World, order, {<<"UnsealDiskKey", "NVReadEx", h>>}).err)

\* C31 (amended): only a failure of the unseal primitive writes the
\* unseal-failure copy, runs the diagnosis and is returned as the composite
\* error; a failure of Load or of the policy session is returned, like a
\* failing read of a blob, as a plain error and leaves every file untouched.
C31_OnlyPrimitiveFailureIsDiagnosed ==
    PrimitiveReached =>
        \A order \in MapOrders :
            /\ LET r == UnsealDiskKey(World, order, {<<"UnsealDiskKey", "UnsealWithSession", 0>>})
               IN /\ r.key = NoKey
                  /\ Composite(r.err)
                  /\ \A i \in EnumeratedDevs :
                        FileExists(r.w.fs, TpmEvtLogSavePattern(MeasurementLogUnsealFail, i))
            /\ \A F \in Failures(LoadAndSessionSites
                                 \cup {<<"UnsealDiskKey", "NVReadEx", h>> : h \in SealedHdls}) \ {{}} :
                  LET r == UnsealDiskKey(World, order, F)
                  IN r.key = NoKey /\ Plain(r.err) /\ r.w = World

\* a sealed pair that unseals and no unseal-failure copy yet: a failing Load
\* returns a plain error and writes nothing, a failing primitive writes the copy
C31_Witness ==
    /\ PrimitiveReached /\ ~PolicyMismatch
    /\ EnumeratedDevs # {}
    /\ ~FileExists(fs, TpmEvtLogSavePattern(MeasurementLogUnsealFail, 0))
    /\ LET l == UnsealDiskKey(World, DiskKeySealingPCRs, {<<"UnsealDiskKey", "Load", 0>>})
           u == UnsealDiskKey(World, DiskKeySealingPCRs,
                              {<<"UnsealDiskKey", "UnsealWithSession", 0>>})
       IN /\ l.err.msg = "loading the disk key into TPM failed"
          /\ l.w = World
          /\ Composite(u.err)
          /\ u.w # World

\* C32: once PCRBankSHA256Enabled has been called in this process, every
\* later call returns the cached answer, whatever the hardware answers now
\* (bank gone or back, probe calls failing), and FetchSealedVaultKey takes
\* the legacy-only path exactly when the cached answer is "not supported".
C32_MemoizedProbe ==
    pcrBank256Status # PCRBank256StatusUnknown =>
        \A F \in Failures(ProbeSites), rnd \in 1..NumKeys, order \in MapOrders :
            /\ PCRBankSHA256Enabled(pcrBank256Status, F) = pcrBank256Status
            /\ LET r == FetchSealedVaultKey(World, pcrBank256Status, rnd, order, F)
               IN r.calls[1] = "FetchVaultKey"
                      <=> pcrBank256Status = PCRBank256StatusNotSupported

\* the probe answered "not supported", the bank is readable now, and
\* FetchSealedVaultKey still takes the legacy-only path
C32_Witness ==
    /\ pcrBank256Status = PCRBank256StatusNotSupported
    /\ bank256
    /\ FetchSealedVaultKey(World, pcrBank256Status, 1, DiskKeySealingPCRs, {}).calls[1]
           = "FetchVaultKey"

\* C33: a copy that copyMeasurementLog writes under device index i holds the
\* measurement log of the TPM that backupCopiedMeasurementLogs and
\* removeCopiedMeasurementLogs count as index i, the (i+1)-th mapped TPM
\* directory, also when a mapped TPM exposes no measurement log.
C33_StableDeviceIndex ==
    ret.op = "copyMeasurementLog" =>
        \A i \in 0..(Len(ret.in.devs) - 1) :
            LET copyPath == TpmEvtLogSavePattern(ret.in.dstPath, i)
            IN ret.out.fs[copyPath] # ret.in.fs[copyPath] =>
                   ret.out.fs[copyPath] = <<[dev |-> i + 1]>>

\* C34: whenever a sealed pair that loads is stored in the NV indices, the
\* snapshot file holds exactly the register values of the policy the pair
\* is bound to.
C34_SnapshotMatchesPair ==
    PrimitiveReached =>
        savedPCRs = <<nv[TpmSealedDiskPubHdl].data[1].authPolicy>>

\* C35: a SealDiskKey that returns no error leaves, for every enumerated
\* device index, no current unseal-failure copy and a current seal-success
\* copy with the log read by this call.
C35_NoUnsealFailCopyAfterSeal ==
    \A key \in Keys, F \in Failures(SealSites) :
        LET r == SealDiskKey(World, key, F)
            logs == getMeasurementLogFiles(tpms, {}, "SealDiskKey").paths
        IN r.err = Nil =>
               \A i \in EnumeratedDevs :
                   /\ ~FileExists(r.w.fs, TpmEvtLogSavePattern(MeasurementLogUnsealFail, i))
                   /\ r.w.fs[TpmEvtLogSavePattern(MeasurementLogSealSuccess, i)]
                          = <<[dev |-> logs[i + 1]]>>

\* C36: for every device index the "-backup" file of the seal-success copy
\* and the "-backup" file of the unseal-failure copy exist together or not
\* at all.
C36_BackupPairsStayPaired ==
    \A i \in Devs :
        FileExists(fs, TpmEvtLogCollectPattern(TpmEvtLogSavePattern(MeasurementLogSealSuccess, i)))
            <=> FileExists(fs, TpmEvtLogCollectPattern(TpmEvtLogSavePattern(MeasurementLogUnsealFail, i)))

\* what a call leaves behind outside the deferral variables
LispEffects(l) == <<l.config, l.running, l.dataPlane, l.uplinks, l.calls>>

\* C37: while the last handleLispRestart had done=false, an updateLisp call
\* only stores its run directory and status; handleLispRestart(true) then
\* clears deferUpdate and the stored arguments, and its effects are those of
\* one updateLisp with the arguments of the last deferred call, or none when
\* no call was deferred.
C37_DeferredLispUpdates ==
    lisp.restartPending =>
        \A separateDataPlane \in BOOLEAN, eidCount \in 0..MaxEids,
           F \in Failures(UpdateLispSites) :
            /\ \A lispRunDirname \in LispRunDirnames, globalStatus \in 1..NumStatuses :
                   updateLisp(lisp, lispRunDirname, globalStatus, separateDataPlane,
                              eidCount, F)
                       = [lisp EXCEPT !.deferLispRunDirname = lispRunDirname,
                                      !.deferGlobalStatus = globalStatus]
            /\ LET l == [lisp EXCEPT !.calls = <<>>]
                   r == handleLispRestart(l, TRUE, separateDataPlane, eidCount, F)
               IN /\ ~r.deferUpdate
                  /\ r.deferLispRunDirname = ""
                  /\ r.deferGlobalStatus = 0
                  /\ LispEffects(r) =
                         IF lisp.deferred = <<>> THEN LispEffects(l)
                         ELSE LispEffects(updateLisp([l EXCEPT !.deferUpdate = FALSE],
                                                     lisp.deferred[1].lispRunDirname,
                                                     lisp.deferred[1].globalStatus,
                                                     separateDataPlane, eidCount, F))

\* handleLispRestart(true) has just run the update that was deferred and
\* restarted LISP
C37_Witness ==
    /\ lisp.last = [op |-> "handleLispRestart", done |-> TRUE]
    /\ lisp.calls # <<>>
    /\ lisp.running
    /\ ~lisp.deferUpdate
    /\ lisp.deferLispRunDirname = ""

\* C38: identitymgr has been signalled only if both configRestarted and
\* verifierRestarted are set. handleConfigRestart and
\* handleVerifierRestarted with done=false change nothing; with done=true
\* each sets its own flag and sends one signal exactly when the flag of the
\* other is already set.
C38_RestartPropagation ==
    /\ zedmanager.signalRestart.identitymgr > 0 =>
           zedmanager.configRestarted /\ zedmanager.verifierRestarted
    /\ handleConfigRestart(zedmanager, FALSE) = zedmanager
    /\ handleVerifierRestarted(zedmanager, FALSE) = zedmanager
    /\ handleConfigRestart(zedmanager, TRUE) =
           [zedmanager EXCEPT !.configRestarted = TRUE,
                              !.signalRestart.identitymgr =
                                  IF zedmanager.verifierRestarted THEN @ + 1 ELSE @]
    /\ handleVerifierRestarted(zedmanager, TRUE) =
           [zedmanager EXCEPT !.verifierRestarted = TRUE,
                              !.signalRestart.identitymgr =
                                  IF zedmanager.configRestarted THEN @ + 1 ELSE @]

\* the configuration restart came first and handleVerifierRestarted, running
\* second, has sent the first signal
C38_Witness ==
    /\ zedmanager.last = [op |-> "handleVerifierRestarted", done |-> TRUE]
    /\ zedmanager.configRestarted
    /\ zedmanager.signalRestart.identitymgr = 1

\* C39: as long as the verifier has not reported restarted, Run has
\* processed changes of the verifier status only.
C39_VerifierFirst ==
    ~zedmanager.verifierRestarted => zedmanager.processed \subseteq {"verifierChanges"}

\* a verifier change has been processed in the first loop and the verifier
\* has not reported restarted yet
C39_Witness ==
    /\ ~zedmanager.verifierRestarted
    /\ ~zedmanager.done
    /\ zedmanager.processed = {"verifierChanges"}

====
